---- MODULE Spec2Model ----
(***************************************************************************)
(* Model of the post-deployment contract registrar                         *)
(* (contracts/script/post_deploy.py): the DeploymentRegistrar class and    *)
(* the main() orchestration that drives it.                                *)
(*                                                                         *)
(* Python values are represented as follows.  None is the string None      *)
(* below; a dict is a record or a function whose DOMAIN is its key set (a  *)
(* key that is absent from the dict is absent from the DOMAIN); a list is  *)
(* a sequence; registrar.config = None is the record ConfigNone.           *)
(***************************************************************************)
EXTENDS Integers, Sequences, FiniteSets, TLC

\* ------------------------------------------------------------------ bounds

\* Longest transaction list of a broadcast record that is explored.
MaxTx == 3

\* ------------------------------------------------------------ Python values

None == "<None>"

\* Python truthiness of an Optional[str]: None and "" are falsy.
Truthy(v) == v # None /\ v # ""

\* dict.get(key) on a dict modelled as a function: None when the key is absent.
Get(d, key) == IF key \in DOMAIN d THEN d[key] ELSE None

ConfigNone == [is_none |-> TRUE]

\* ------------------------------------------------------------------ inputs

\* --chain-id values tried (the default local chain and a public test chain).
ChainIds == {31337, 11155111}

\* --api-key: not given, given empty, given.
ApiKeys == {None, "", "secret-key"}

\* network.network_name values the configuration service may return.
NetworkNames == {"localhost", "sepolia"}

\* network.default_deployer as returned: key absent, empty string, an address.
NetworkConfigs ==
    { [network_name |-> n, display_name |-> n] : n \in NetworkNames }
    \cup { [network_name |-> n, display_name |-> n, default_deployer |-> d] :
             n \in NetworkNames, d \in {"", "0xDeployer"} }

mStaking == [id |-> 1, solidity_name |-> "Staking", db_name |-> "nexusStaking"]
mToken == [id |-> 2, solidity_name |-> "Token", db_name |-> "nexusToken"]
mStakingV2 == [id |-> 3, solidity_name |-> "Staking", db_name |-> "nexusStakingV2"]

\* Mapping lists the configuration service may return; the last one holds two
\* rows with the same solidity_name (the dict built from it keeps the later row).
MappingLists ==
    { <<>>, <<mToken, mStaking>>, <<mStaking, mStakingV2>> }

Configs == { [network |-> n, mappings |-> m] : n \in NetworkConfigs, m \in MappingLists }

\* Transactions of a broadcast record.
Transactions ==
    { [transactionType |-> "CREATE", contractName |-> "Staking",
       contractAddress |-> "0xA1", hash |-> "0xH1"],
      [transactionType |-> "CREATE", contractName |-> "Staking",
       contractAddress |-> "0xA2", hash |-> "0xH2"],
      [transactionType |-> "CREATE", contractName |-> "Unrecognized",
       contractAddress |-> "0xA3", hash |-> "0xH3"],
      [transactionType |-> "CALL", contractName |-> "Staking",
       contractAddress |-> "0xA1", hash |-> "0xH4"] }

SeqsUpTo(S, n) == UNION { [1..k -> S] : k \in 0..n }

\* broadcast["transactions"] of the records explored.
Broadcasts == SeqsUpTo(Transactions, MaxTx)

\* What requests.get can do in fetch_config.
GetOutcomes ==
    { "connection_error", "timeout", "http_error", "invalid_json",
      "success_false", "ok" }

\* What requests.post can do in register_contracts.
PostOutcomes == { "ok", "http_error", "request_exception" }

\* ------------------------------------------------------------------- state

VARIABLES
    args,           \* parsed command line: chain_id, api_key, dry_run
    headers,        \* registrar.headers
    config,         \* registrar.config (ConfigNone until fetched)
    pc,             \* position of main()
    get_outcome,    \* what the configuration GET did (None before it is sent)
    gets,           \* configuration GETs sent so far, each with its headers
    possible_exist, \* for each candidate path of the record, whether it exists
    broadcast_path, \* index of the candidate that was loaded (0: none)
    record_valid,   \* whether the loaded file held valid JSON
    broadcast,      \* transactions of the loaded record
    deployments,    \* result of extract_deployments
    dep_idx,        \* register_contracts: items of the for loop completed
    posts,          \* registration POSTs sent so far: payload and headers
    post_outcomes,  \* what each of those POSTs did
    success_count,  \* register_contracts local
    failure_count,  \* register_contracts local
    out,            \* console output, one record per reported line
    stages,         \* stages of main() entered so far, in order
    exit_code       \* process exit status once pc = "exited" (-1 while running)

registrar_vars ==
    << args, headers, config, pc, get_outcome, gets, possible_exist,
       broadcast_path, record_valid, broadcast, deployments, dep_idx,
       posts, post_outcomes, success_count, failure_count, out, stages,
       exit_code >>

VARIABLES
    calls           \* methods of the registrar called directly, in order, each
                    \* with the exception it raised (None: it returned)

\* scripts/test_governance.py, the governance end-to-end driver
VARIABLES
    gov_pc,         \* position of the driver
    gov_trace,      \* what it did on the chain, in order: transactions sent,
                    \* blocks mined, time advanced, states checked
    result1,        \* what test_governance_direct_voting returned (None: not yet)
    result2,        \* what test_governance_with_delegation returned
    gov_raised,     \* whether an exception reached the handler of __main__
    gov_exit        \* exit status of the driver (-1 while running)

gov_vars == << gov_pc, gov_trace, result1, result2, gov_raised, gov_exit >>

GovIdle ==
    /\ gov_pc = "idle"
    /\ gov_trace = <<>>
    /\ result1 = None
    /\ result2 = None
    /\ gov_raised = FALSE
    /\ gov_exit = -1

\* scripts/test_governance_delegation.py, the delegation test
VARIABLES
    deleg_pc,       \* position of main()
    deleg_checks,   \* for each thing a step looks at: "held", "failed", or
                    \* "none" while no step has looked at it
    deleg_out,      \* verdict lines printed so far
    deleg_exit      \* exit status (-1 while running)

deleg_vars == << deleg_pc, deleg_checks, deleg_out, deleg_exit >>

\* What the steps of the delegation test look at.
CheckNames ==
    { "delegation", "mine_rpc_delay", "active", "mine_rpc_period", "succeeded",
      "time_rpc", "execute_tx", "allowance" }

DelegIdle ==
    /\ deleg_pc = "idle"
    /\ deleg_checks = [ c \in CheckNames |-> "none" ]
    /\ deleg_out = <<>>
    /\ deleg_exit = -1

\* security/slither/detectors/reentrancy_check.py, the detectors
VARIABLES
    unit,                \* compilation_unit.contracts_derived
    detectors_run,       \* the detectors whose _detect has returned
    reentrancy_results,  \* what NexusReentrancyDetector._detect returned
    access_results       \* what NexusAccessControlDetector._detect returned

det_vars == << unit, detectors_run, reentrancy_results, access_results >>

DetIdle ==
    /\ unit = <<>>
    /\ detectors_run = {}
    /\ reentrancy_results = <<>>
    /\ access_results = <<>>

\* mine_blocks of scripts/test_governance.py and of
\* scripts/test_governance_delegation.py
VARIABLES
    mine_pc,        \* position of mine_blocks
    count,          \* argument count
    batch_size,     \* argument batch_size
    mined,          \* local of test_governance.mine_blocks
    remaining,      \* local of test_governance_delegation.mine_blocks
    mine_calls,     \* the anvil_mine calls issued: batch size and success
    mine_returned   \* what mine_blocks returned (None: nothing yet)

mine_vars ==
    << mine_pc, count, batch_size, mined, remaining, mine_calls, mine_returned >>

MineIdle ==
    /\ mine_pc = "idle"
    /\ count = 0
    /\ batch_size = 0
    /\ mined = 0
    /\ remaining = 0
    /\ mine_calls = <<>>
    /\ mine_returned = None

\* frontend/public/metadata/generate_metadata.py and images/generate.py
VARIABLES
    json_files,     \* <token_id>.json written so far, in order
    svg_files       \* <token_id>.svg written so far, in order

nft_vars == << json_files, svg_files >>

NftIdle ==
    /\ json_files = <<>>
    /\ svg_files = <<>>

method_vars == << calls >>

\* Every variable that main() of post_deploy.py does not touch.
other_vars == << method_vars, gov_vars, deleg_vars, det_vars, mine_vars, nft_vars >>

\* Every variable that a direct caller of the registrar does not touch.
script_vars == << gov_vars, deleg_vars, det_vars, mine_vars, nft_vars >>

\* Every variable that test_governance.py does not touch.
not_gov_vars ==
    << registrar_vars, method_vars, deleg_vars, det_vars, mine_vars, nft_vars >>

\* Every variable that test_governance_delegation.py does not touch.
not_deleg_vars ==
    << registrar_vars, method_vars, gov_vars, det_vars, mine_vars, nft_vars >>

\* Every variable that the detectors do not touch.
not_det_vars ==
    << registrar_vars, method_vars, gov_vars, deleg_vars, mine_vars, nft_vars >>

\* Every variable that mine_blocks does not touch.
not_mine_vars ==
    << registrar_vars, method_vars, gov_vars, deleg_vars, det_vars, nft_vars >>

\* Every variable that the metadata and image generators do not touch.
not_nft_vars ==
    << registrar_vars, method_vars, gov_vars, deleg_vars, det_vars, mine_vars >>

vars == << registrar_vars, other_vars >>

\* ------------------------------------------------ DeploymentRegistrar methods

\* __init__: the X-API-Key header is set only for a truthy api_key.
InitHeaders(api_key) ==
    IF Truthy(api_key)
    THEN [ContentType |-> "application/json", XAPIKey |-> api_key]
    ELSE [ContentType |-> "application/json"]

\* Variant: the success flag of the response body is not looked at.
FetchRaises_FlagIgnored(outcome) ==
    CASE outcome = "connection_error" -> [type |-> "RuntimeError", msg |-> "Cannot connect to API"]
      [] outcome = "timeout"          -> [type |-> "RuntimeError", msg |-> "API request timed out"]
      [] outcome = "http_error"       -> [type |-> "RuntimeError", msg |-> "Failed to fetch config"]
      [] outcome = "invalid_json"     -> [type |-> "JSONDecodeError", msg |-> "invalid JSON"]
      [] OTHER                        -> [type |-> None, msg |-> None]

\* Variant: the HTTP status of the response is not looked at.
FetchRaises_StatusIgnored(outcome) ==
    CASE outcome = "connection_error" -> [type |-> "RuntimeError", msg |-> "Cannot connect to API"]
      [] outcome = "timeout"          -> [type |-> "RuntimeError", msg |-> "API request timed out"]
      [] outcome = "success_false"    -> [type |-> "RuntimeError", msg |-> "API error"]
      [] outcome = "invalid_json"     -> [type |-> "JSONDecodeError", msg |-> "invalid JSON"]
      [] OTHER                        -> [type |-> None, msg |-> None]

\* Variant: a timeout is reported with the message of a connection failure.
FetchRaises_TimeoutAsConnection(outcome) ==
    CASE outcome = "connection_error" -> [type |-> "RuntimeError", msg |-> "Cannot connect to API"]
      [] outcome = "timeout"          -> [type |-> "RuntimeError", msg |-> "Cannot connect to API"]
      [] outcome = "http_error"       -> [type |-> "RuntimeError", msg |-> "Failed to fetch config"]
      [] outcome = "success_false"    -> [type |-> "RuntimeError", msg |-> "API error"]
      [] outcome = "invalid_json"     -> [type |-> "JSONDecodeError", msg |-> "invalid JSON"]
      [] OTHER                        -> [type |-> None, msg |-> None]

\* fetch_config: the exception raised for each outcome of the GET (None: no
\* exception).  RuntimeError messages are told apart by their text; an invalid
\* JSON body raises out of resp.json() and is no RuntimeError.
FetchRaises(outcome) ==
    CASE outcome = "connection_error" -> [type |-> "RuntimeError", msg |-> "Cannot connect to API"]
      [] outcome = "timeout"          -> [type |-> "RuntimeError", msg |-> "API request timed out"]
      [] outcome = "http_error"       -> [type |-> "RuntimeError", msg |-> "Failed to fetch config"]
      [] outcome = "success_false"    -> [type |-> "RuntimeError", msg |-> "API error"]
      [] outcome = "invalid_json"     -> [type |-> "JSONDecodeError", msg |-> "invalid JSON"]
      [] OTHER                        -> [type |-> None, msg |-> None]

\* Variant: the body's data is stored before its success flag is looked at.
ConfigAfterFetch_StoredBeforeFlag(cfg, outcome, data) ==
    IF outcome \in {"ok", "success_false"} THEN data ELSE cfg

\* fetch_config, line 57: registrar.config is assigned only once every check
\* has passed; an exception leaves it as it was.
ConfigAfterFetch(cfg, outcome, data) ==
    IF FetchRaises(outcome).type = None THEN data ELSE cfg

\* Variant: the loop has no break, so the last existing candidate wins.
RECURSIVE FirstExisting_NoBreak(_, _)
FirstExisting_NoBreak(exists, i) ==
    IF i > Len(exists) THEN 0
    ELSE LET later == FirstExisting_NoBreak(exists, i + 1)
         IN IF later # 0 THEN later ELSE IF exists[i] THEN i ELSE 0

\* load_broadcast_json, lines 69-74: index of the first candidate that exists,
\* 0 when none does.
RECURSIVE FirstExisting(_, _)
FirstExisting(exists, i) ==
    IF i > Len(exists) THEN 0
    ELSE IF exists[i] THEN i
    ELSE FirstExisting(exists, i + 1)

\* Variant: only the first mapping row is entered in the dict.
solidity_to_mapping_FirstOnly(mappings) ==
    [ n \in { mappings[i].solidity_name : i \in DOMAIN mappings \cap {1} } |->
        mappings[1] ]

\* Variant: the message names only the first candidate.
Searched_FirstOnly(exists) == << 1 >>

\* load_broadcast_json, line 77: the candidates named in the not-found
\* message, every entry of possible_paths in order.
Searched(exists) == [ i \in 1..Len(exists) |-> i ]

\* extract_deployments, lines 96-98: the dict comprehension; for a repeated
\* solidity_name the later mapping overwrites the earlier one.
solidity_to_mapping(mappings) ==
    [ n \in { mappings[i].solidity_name : i \in DOMAIN mappings } |->
        LET last == CHOOSE i \in DOMAIN mappings :
                       /\ mappings[i].solidity_name = n
                       /\ \A j \in DOMAIN mappings :
                            mappings[j].solidity_name = n => j <= i
        IN mappings[last] ]

\* Variant: the transaction type is not looked at.
IsCreate_AnyType(tx) == TRUE

\* line 104
IsCreate(tx) == Get(tx, "transactionType") = "CREATE"

\* line 106
IsMapped(solidity_name, stm) == solidity_name \in DOMAIN stm

\* Variant: tx_hash is read from the contractAddress key.
MakeDeployment_HashFromAddress(tx, mapping) ==
    [ solidity_name |-> Get(tx, "contractName"),
      db_name |-> mapping.db_name,
      mapping_id |-> mapping.id,
      address |-> Get(tx, "contractAddress"),
      tx_hash |-> Get(tx, "contractAddress") ]

\* lines 108-114
MakeDeployment(tx, mapping) ==
    [ solidity_name |-> Get(tx, "contractName"),
      db_name |-> mapping.db_name,
      mapping_id |-> mapping.id,
      address |-> Get(tx, "contractAddress"),
      tx_hash |-> Get(tx, "hash") ]

\* line 116
SkipLine(solidity_name) == [kind |-> "skip", name |-> solidity_name]

\* Variant: a new Deployment is put at the front of the list.
RECURSIVE ExtractLoop_Prepend(_, _, _, _, _)
ExtractLoop_Prepend(stm, transactions, i, deps, printed) ==
    IF i > Len(transactions) THEN [deployments |-> deps, printed |-> printed]
    ELSE LET tx == transactions[i]
             solidity_name == Get(tx, "contractName")
         IN IF IsCreate(tx)
            THEN IF IsMapped(solidity_name, stm)
                 THEN ExtractLoop_Prepend(stm, transactions, i + 1,
                                  << MakeDeployment(tx, stm[solidity_name]) >> \o deps,
                                  printed)
                 ELSE ExtractLoop_Prepend(stm, transactions, i + 1, deps,
                                  Append(printed, SkipLine(solidity_name)))
            ELSE ExtractLoop_Prepend(stm, transactions, i + 1, deps, printed)

\* extract_deployments, lines 103-116: the for loop from transaction i on, with
\* the deployments list and the lines printed so far.
RECURSIVE ExtractLoop(_, _, _, _, _)
ExtractLoop(stm, transactions, i, deps, printed) ==
    IF i > Len(transactions) THEN [deployments |-> deps, printed |-> printed]
    ELSE LET tx == transactions[i]
             solidity_name == Get(tx, "contractName")
         IN IF IsCreate(tx)
            THEN IF IsMapped(solidity_name, stm)
                 THEN ExtractLoop(stm, transactions, i + 1,
                                  Append(deps, MakeDeployment(tx, stm[solidity_name])),
                                  printed)
                 ELSE ExtractLoop(stm, transactions, i + 1, deps,
                                  Append(printed, SkipLine(solidity_name)))
            ELSE ExtractLoop(stm, transactions, i + 1, deps, printed)

\* extract_deployments: the returned list and the lines it printed; raises
\* when the configuration was never fetched.
extract_deployments(cfg, transactions) ==
    IF cfg = ConfigNone
    THEN [raised |-> "RuntimeError", deployments |-> <<>>, printed |-> <<>>]
    ELSE LET r == ExtractLoop(solidity_to_mapping(cfg.mappings), transactions, 1, <<>>, <<>>)
         IN [raised |-> None, deployments |-> r.deployments, printed |-> r.printed]

\* Variant: the deployer is taken out of the dict (pop) instead of read.
ConfigAfterGetDeployer_Pop(cfg) ==
    [ cfg EXCEPT !.network =
        [ key \in DOMAIN cfg.network \ {"default_deployer"} |-> cfg.network[key] ] ]

\* register_contracts, line 130: dict.get reads the key and leaves
\* self.config as it is.
ConfigAfterGetDeployer(cfg) == cfg

\* register_contracts, line 130
DefaultDeployer(cfg) == Get(cfg.network, "default_deployer")

\* Variant: deployed_by is added whenever the value is not the empty string.
AttachDeployer_NotEmpty(default_deployer) == default_deployer # ""

\* register_contracts, lines 143-144: whether deployed_by is added.
AttachDeployer(default_deployer) == Truthy(default_deployer)

\* Variant: the payload carries the default chain id instead of the run's.
Payload_DefaultChain(chain_id, dep, default_deployer) ==
    IF AttachDeployer(default_deployer)
    THEN [ chain_id |-> 31337, contract_mapping_id |-> dep.mapping_id,
           address |-> dep.address, deployment_tx_hash |-> dep.tx_hash,
           deployed_by |-> default_deployer ]
    ELSE [ chain_id |-> 31337, contract_mapping_id |-> dep.mapping_id,
           address |-> dep.address, deployment_tx_hash |-> dep.tx_hash ]

\* register_contracts, lines 136-144
Payload(chain_id, dep, default_deployer) ==
    IF AttachDeployer(default_deployer)
    THEN [ chain_id |-> chain_id, contract_mapping_id |-> dep.mapping_id,
           address |-> dep.address, deployment_tx_hash |-> dep.tx_hash,
           deployed_by |-> default_deployer ]
    ELSE [ chain_id |-> chain_id, contract_mapping_id |-> dep.mapping_id,
           address |-> dep.address, deployment_tx_hash |-> dep.tx_hash ]

\* register_contracts, lines 153-161: the line printed for a POST's outcome.
ResultLine(dep, outcome) ==
    IF outcome = "ok"
    THEN [kind |-> "registered", db_name |-> dep.db_name, address |-> dep.address]
    ELSE [kind |-> "failed", db_name |-> dep.db_name]

\* Variant: a request exception is not counted as a failure.
FailureAfter_ExceptionUncounted(n, outcome) ==
    IF outcome = "http_error" THEN n + 1 ELSE n

\* lines 155, 158, 161: the counters after one POST.
SuccessAfter(n, outcome) == IF outcome = "ok" THEN n + 1 ELSE n
FailureAfter(n, outcome) == IF outcome = "ok" THEN n ELSE n + 1

\* Variant: the loop index is never advanced.
NextItem_Stuck(idx, outcome) == idx

\* Variant: an item whose POST did not succeed is submitted again.
NextItem_RetryOnFailure(idx, outcome) == IF outcome = "ok" THEN idx + 1 ELSE idx

\* register_contracts, line 135: the for loop moves to the next item after
\* each POST, whatever it did.
NextItem(idx, outcome) == idx + 1

\* Variant: the loop stops at the first POST that did not succeed.
LoopContinues_AbortOnFailure(idx, deps, outcomes) ==
    /\ idx < Len(deps)
    /\ IF idx = 0 THEN TRUE ELSE outcomes[idx] = "ok"

\* register_contracts, line 135: the for loop goes on to the next item
\* whatever the previous POST did.
LoopContinues(idx, deps, outcomes) == idx < Len(deps)

\* -------------------------------------------------------------------- main()

\* load_broadcast_json, lines 64-67: two candidate paths.
NumPossiblePaths == 2

\* sys.exit(code), a return from main() (code 0), or an uncaught exception
\* (the interpreter prints the traceback and exits with status 1).
Exit(code) == pc' = "exited" /\ exit_code' = code

\* Variant: only an absent --api-key counts as missing (an empty one passes).
ApiKeyMissing_OnlyNone(network_name, api_key) ==
    network_name # "localhost" /\ api_key = None

\* Variant: the gate is never taken.
ApiKeyMissing_Never(network_name, api_key) == FALSE

\* line 216: the authorization gate.
ApiKeyMissing(network_name, api_key) ==
    network_name # "localhost" /\ ~Truthy(api_key)

\* line 236
NothingToRegister(deps) == deps = <<>>

\* Variant: the --dry-run flag is ignored.
IsDryRun_Ignored(a) == FALSE

\* line 240
IsDryRun(a) == a.dry_run

\* Variant: the summary never exits non-zero.
SummaryExit_AlwaysZero(failures) == 0

\* lines 252-256: exit status after register_contracts returned.
SummaryExit(failures) == IF failures = 0 THEN 0 ELSE 1

\* lines 232-233
FoundLines(deps) ==
    [ i \in 1..Len(deps) |->
        [kind |-> "found", db_name |-> deps[i].db_name,
         solidity_name |-> deps[i].solidity_name, address |-> deps[i].address] ]

\* Variant: the dry-run list stops one item short.
WouldRegisterLines_DropLast(deps) ==
    [ i \in 1..(Len(deps) - 1) |->
        [kind |-> "would_register", db_name |-> deps[i].db_name,
         address |-> deps[i].address] ]

\* lines 243-244
WouldRegisterLines(deps) ==
    [ i \in 1..Len(deps) |->
        [kind |-> "would_register", db_name |-> deps[i].db_name,
         address |-> deps[i].address] ]

\* The registrar right after its construction by a caller holding arguments a.
RegistrarInit(a) ==
    /\ args = a
    /\ headers = InitHeaders(args.api_key)
    /\ config = ConfigNone
    /\ get_outcome = None
    /\ gets = <<>>
    /\ possible_exist = <<>>
    /\ broadcast_path = 0
    /\ record_valid = TRUE
    /\ broadcast = <<>>
    /\ deployments = <<>>
    /\ dep_idx = 0
    /\ posts = <<>>
    /\ post_outcomes = <<>>
    /\ success_count = 0
    /\ failure_count = 0
    /\ out = <<>>
    /\ stages = <<>>
    /\ exit_code = -1
    /\ calls = <<>>

\* No run of main(), no registrar.
RegistrarIdle ==
    /\ RegistrarInit([chain_id |-> 31337, api_key |-> None, dry_run |-> FALSE])
    /\ pc = "idle"

Init ==
    /\ \E a \in [chain_id : ChainIds, api_key : ApiKeys, dry_run : BOOLEAN] :
          RegistrarInit(a)
    /\ pc = "fetch_config"
    /\ GovIdle
    /\ DelegIdle
    /\ DetIdle
    /\ MineIdle
    /\ NftIdle

\* lines 198-213 with fetch_config (lines 42-58)
FetchConfig ==
    /\ pc = "fetch_config"
    /\ \E outcome \in GetOutcomes, data \in Configs :
        LET exc == FetchRaises(outcome) IN
        /\ stages' = Append(stages, "FETCH_CONFIG")
        /\ gets' = Append(gets, [chain_id |-> args.chain_id, headers |-> headers])
        /\ get_outcome' = outcome
        /\ config' = ConfigAfterFetch(config, outcome, data)
        /\ IF exc.type = None
           THEN /\ out' = Append(out, [kind |-> "network",
                                       network_name |-> data.network.network_name,
                                       mapping_count |-> Len(data.mappings)])
                /\ pc' = "check_auth"
                /\ exit_code' = exit_code
           ELSE /\ out' = Append(out, [kind |-> IF exc.type = "RuntimeError"
                                                THEN "error" ELSE "traceback",
                                       msg |-> exc.msg])
                /\ Exit(1)
    /\ UNCHANGED << args, headers, possible_exist, broadcast_path, record_valid, broadcast,
                    deployments, dep_idx, posts, post_outcomes, success_count,
                    failure_count >>
    /\ UNCHANGED other_vars

\* lines 215-219
CheckAuth ==
    /\ pc = "check_auth"
    /\ stages' = Append(stages, "CHECK_AUTH_REQUIREMENT")
    /\ IF ApiKeyMissing(config.network.network_name, args.api_key)
       THEN /\ out' = Append(out, [kind |-> "error", msg |-> "API key required"])
            /\ Exit(1)
       ELSE /\ out' = out
            /\ pc' = "load_record"
            /\ exit_code' = exit_code
    /\ UNCHANGED << args, headers, config, get_outcome, gets, possible_exist,
                    broadcast_path, record_valid, broadcast, deployments, dep_idx, posts,
                    post_outcomes, success_count, failure_count >>
    /\ UNCHANGED other_vars

\* lines 221-227 with load_broadcast_json (lines 63-85)
\* (records: the contents the file may hold)
LoadRecordFrom(records) ==
    /\ pc = "load_record"
    /\ \E exists \in [1..NumPossiblePaths -> BOOLEAN], content \in records,
          parses \in BOOLEAN :
        LET found == FirstExisting(exists, 1) IN
        /\ stages' = Append(stages, "LOAD_RECORD")
        /\ possible_exist' = exists
        /\ broadcast_path' = found
        /\ record_valid' = (found = 0 \/ parses)
        /\ IF found = 0
           THEN /\ out' = Append(out, [kind |-> "error", msg |-> "Broadcast file not found",
                                       searched |-> Searched(exists)])
                /\ broadcast' = broadcast
                /\ Exit(1)
           ELSE IF ~parses
           THEN /\ out' = Append(Append(out, [kind |-> "loading", path |-> found]),
                                 [kind |-> "traceback", msg |-> "invalid JSON"])
                /\ broadcast' = broadcast
                /\ Exit(1)
           ELSE /\ out' = Append(out, [kind |-> "loading", path |-> found])
                /\ broadcast' = content
                /\ pc' = "cross_reference"
                /\ exit_code' = exit_code
    /\ UNCHANGED << args, headers, config, get_outcome, gets, deployments, dep_idx,
                    posts, post_outcomes, success_count, failure_count >>
    /\ UNCHANGED other_vars

LoadRecord == LoadRecordFrom(Broadcasts)

\* lines 229-233 with extract_deployments (lines 92-118)
CrossReference ==
    /\ pc = "cross_reference"
    /\ LET r == extract_deployments(config, broadcast) IN
        /\ stages' = Append(stages, "CROSS_REFERENCE")
        /\ IF r.raised # None
           THEN /\ deployments' = deployments
                /\ out' = Append(out, [kind |-> "traceback", msg |-> "Config not loaded"])
                /\ Exit(1)
           ELSE /\ deployments' = r.deployments
                /\ out' = out \o r.printed
                              \o << [kind |-> "found_count", n |-> Len(r.deployments)] >>
                              \o FoundLines(r.deployments)
                /\ pc' = "select_mode"
                /\ exit_code' = exit_code
    /\ UNCHANGED << args, headers, config, get_outcome, gets, possible_exist,
                    broadcast_path, record_valid, broadcast, dep_idx, posts, post_outcomes,
                    success_count, failure_count >>
    /\ UNCHANGED other_vars

\* lines 236-238
NoContracts ==
    /\ pc = "select_mode"
    /\ NothingToRegister(deployments)
    /\ out' = Append(out, [kind |-> "no_contracts"])
    /\ Exit(0)
    /\ UNCHANGED << args, headers, config, get_outcome, gets, possible_exist,
                    broadcast_path, record_valid, broadcast, deployments, dep_idx, posts,
                    post_outcomes, success_count, failure_count, stages >>
    /\ UNCHANGED other_vars

\* lines 240-245
DryRunReport ==
    /\ pc = "select_mode"
    /\ ~NothingToRegister(deployments)
    /\ IsDryRun(args)
    /\ stages' = Append(stages, "DRY_RUN_REPORT")
    /\ out' = Append(out, [kind |-> "dry_run"]) \o WouldRegisterLines(deployments)
    /\ Exit(0)
    /\ UNCHANGED << args, headers, config, get_outcome, gets, possible_exist,
                    broadcast_path, record_valid, broadcast, deployments, dep_idx, posts,
                    post_outcomes, success_count, failure_count >>
    /\ UNCHANGED other_vars

\* lines 247-248 and register_contracts up to its loop (lines 126-133)
BeginRegister ==
    /\ pc = "select_mode"
    /\ ~NothingToRegister(deployments)
    /\ ~IsDryRun(args)
    /\ stages' = Append(stages, "REGISTER")
    /\ IF config = ConfigNone
       THEN /\ out' = Append(out, [kind |-> "traceback", msg |-> "Config not loaded"])
            /\ config' = config
            /\ Exit(1)
       ELSE /\ out' = Append(out, [kind |-> "registering"])
            /\ config' = ConfigAfterGetDeployer(config)
            /\ pc' = "register"
            /\ exit_code' = exit_code
    /\ dep_idx' = 0
    /\ success_count' = 0
    /\ failure_count' = 0
    /\ UNCHANGED << args, headers, get_outcome, gets, possible_exist,
                    broadcast_path, record_valid, broadcast, deployments, posts, post_outcomes >>
    /\ UNCHANGED other_vars

\* register_contracts, one iteration of the for loop (lines 135-161)
RegisterOne ==
    /\ pc = "register"
    /\ LoopContinues(dep_idx, deployments, post_outcomes)
    /\ \E outcome \in PostOutcomes :
        LET dep == deployments[dep_idx + 1]
            payload == Payload(args.chain_id, dep, DefaultDeployer(config))
        IN
        /\ posts' = Append(posts, [payload |-> payload, headers |-> headers])
        /\ post_outcomes' = Append(post_outcomes, outcome)
        /\ out' = Append(out, ResultLine(dep, outcome))
        /\ success_count' = SuccessAfter(success_count, outcome)
        /\ failure_count' = FailureAfter(failure_count, outcome)
        /\ dep_idx' = NextItem(dep_idx, outcome)
    /\ UNCHANGED << args, headers, config, pc, get_outcome, gets, possible_exist,
                    broadcast_path, record_valid, broadcast, deployments, stages, exit_code >>
    /\ UNCHANGED other_vars

\* register_contracts returns (line 163); the summary of main (lines 250-260)
Summary ==
    /\ pc = "register"
    /\ ~LoopContinues(dep_idx, deployments, post_outcomes)
    /\ out' = Append(out, IF failure_count = 0
                          THEN [kind |-> "success", registered |-> success_count]
                          ELSE [kind |-> "partial", registered |-> success_count,
                                failed |-> failure_count])
    /\ Exit(SummaryExit(failure_count))
    /\ UNCHANGED << args, headers, config, get_outcome, gets, possible_exist,
                    broadcast_path, record_valid, broadcast, deployments, dep_idx, posts,
                    post_outcomes, success_count, failure_count, stages >>
    /\ UNCHANGED other_vars

Next ==
    \/ FetchConfig
    \/ CheckAuth
    \/ LoadRecord
    \/ CrossReference
    \/ NoContracts
    \/ DryRunReport
    \/ BeginRegister
    \/ RegisterOne
    \/ Summary

Spec == Init /\ [][Next]_vars

\* ------------------------------------------------------------------ claims

Range(f) == { f[i] : i \in DOMAIN f }

\* main() got as far as the named stage.
Entered(stage) == \E i \in DOMAIN stages : stages[i] = stage

LastStage == stages[Len(stages)]

\* The configuration was fetched.
Fetched == config # ConfigNone

\* solidity_name values of the fetched mappings.
MappedNames == { config.mappings[i].solidity_name : i \in DOMAIN config.mappings }

\* Transaction i of the record is a CREATE whose contractName is mapped.
Matching(i) ==
    /\ broadcast[i].transactionType = "CREATE"
    /\ \E j \in DOMAIN config.mappings :
         config.mappings[j].solidity_name = broadcast[i].contractName

\* Transaction i of the record is a CREATE whose contractName is not mapped.
UnmappedCreate(i) ==
    /\ broadcast[i].transactionType = "CREATE"
    /\ broadcast[i].contractName \notin MappedNames

\* The Deployment dep was built from transaction tx.
BuiltFrom(dep, tx) ==
    /\ dep.solidity_name = tx.contractName
    /\ dep.address = tx.contractAddress
    /\ dep.tx_hash = tx.hash

SkipLinesFor(name) ==
    { k \in DOMAIN out : out[k].kind = "skip" /\ out[k].name = name }

TxNames == { tx.contractName : tx \in Transactions }

\* No usable --api-key on a network other than localhost.
Unauthenticated ==
    /\ Fetched
    /\ config.network.network_name # "localhost"
    /\ args.api_key \in {None, ""}

\* C1: extract_deployments emits exactly one Deployment per transaction that is
\* a CREATE with a mapped contractName and none for any other transaction: for
\* every transaction value, the Deployments built from it are as many as its
\* occurrences in the record when it matches and zero otherwise, and the
\* output length is the number of matching transactions.
C1_OneDeploymentPerMappedCreate ==
    Entered("CROSS_REFERENCE") =>
        /\ Len(deployments) = Cardinality({ i \in DOMAIN broadcast : Matching(i) })
        /\ \A tx \in Transactions :
             Cardinality({ k \in DOMAIN deployments : BuiltFrom(deployments[k], tx) })
               = Cardinality({ i \in DOMAIN broadcast :
                                 broadcast[i] = tx /\ Matching(i) })

\* Two CREATE transactions with the same mapped name and a CALL in one record
\* gave two Deployments.
C1_Witness ==
    /\ Entered("CROSS_REFERENCE")
    /\ Len(broadcast) = 3
    /\ Cardinality({ i \in DOMAIN broadcast : Matching(i) }) = 2
    /\ \E i \in DOMAIN broadcast : broadcast[i].transactionType = "CALL"
    /\ Len(deployments) = 2
    /\ deployments[1].solidity_name = deployments[2].solidity_name
    /\ deployments[1].address # deployments[2].address

\* C2 as stated: every transaction for which no Deployment is constructed is
\* reported with a skip message.
C2_EveryExcludedTxReported ==
    Entered("CROSS_REFERENCE") =>
        \A n \in TxNames :
            Cardinality(SkipLinesFor(n))
              = Cardinality({ i \in DOMAIN broadcast :
                                broadcast[i].contractName = n /\ ~Matching(i) })

\* C2 (amended): every CREATE transaction whose contractName is not mapped is
\* reported with one skip message naming it, and these are all the skip
\* messages; a non-CREATE transaction is excluded without any message.
C2_UnmappedCreatesReported ==
    Entered("CROSS_REFERENCE") =>
        \A n \in TxNames :
            Cardinality(SkipLinesFor(n))
              = Cardinality({ i \in DOMAIN broadcast :
                                broadcast[i].contractName = n /\ UnmappedCreate(i) })

\* A record with a mapped CREATE, an unmapped CREATE and a CALL: one
\* Deployment, one skip message, nothing for the CALL.
C2_Witness ==
    /\ Entered("CROSS_REFERENCE")
    /\ Len(broadcast) = 3
    /\ Len(deployments) = 1
    /\ \E i \in DOMAIN broadcast : UnmappedCreate(i)
    /\ \E i \in DOMAIN broadcast : broadcast[i].transactionType = "CALL"
    /\ Cardinality({ k \in DOMAIN out : out[k].kind = "skip" }) = 1

\* C3: once a configuration naming a network other than localhost is fetched
\* and no API key was supplied, the run is at the authorization gate or has
\* exited there with a non-zero status; the record is never probed or read and
\* no Deployment is extracted.
C3_AuthGateBeforeLoad ==
    Unauthenticated =>
        /\ pc \in {"check_auth", "exited"}
        /\ ~Entered("LOAD_RECORD")
        /\ possible_exist = <<>> /\ broadcast_path = 0 /\ broadcast = <<>>
        /\ deployments = <<>>
        /\ pc = "exited" => (exit_code # 0 /\ LastStage = "CHECK_AUTH_REQUIREMENT")

\* A run on sepolia with an empty --api-key ended at the gate.
C3_Witness ==
    /\ Unauthenticated
    /\ args.api_key = ""
    /\ pc = "exited"
    /\ exit_code = 1
    /\ LastStage = "CHECK_AUTH_REQUIREMENT"

\* C4: no registration POST is ever issued while no API key is supplied and
\* the fetched network is not localhost; every POST to such a network carries
\* the X-API-Key header.
C4_NoUnauthenticatedPost ==
    /\ posts # <<>> => ~Unauthenticated
    /\ \A k \in DOMAIN posts :
         config.network.network_name # "localhost" =>
            /\ "XAPIKey" \in DOMAIN posts[k].headers
            /\ posts[k].headers.XAPIKey = args.api_key

\* POSTs were issued on sepolia with a key supplied.
C4_Witness ==
    /\ Len(posts) >= 2
    /\ config.network.network_name = "sepolia"
    /\ args.api_key = "secret-key"

\* C5: a dry run issues no registration POST.
C5_DryRunNoPost ==
    args.dry_run => posts = <<>> /\ post_outcomes = <<>> /\ ~Entered("REGISTER")

\* A dry run that extracted two Deployments reported them and ended.
C5_Witness ==
    /\ args.dry_run
    /\ pc = "exited"
    /\ exit_code = 0
    /\ Len(deployments) = 2
    /\ Entered("DRY_RUN_REPORT")
    /\ posts = <<>>

\* register_contracts has returned to main().
Registered == Entered("REGISTER") /\ pc = "exited"

OkPosts == { k \in DOMAIN post_outcomes : post_outcomes[k] = "ok" }

FailedPosts == { k \in DOMAIN post_outcomes : post_outcomes[k] # "ok" }

\* POST k submitted Deployment dep.
Submits(k, dep) ==
    /\ posts[k].payload.contract_mapping_id = dep.mapping_id
    /\ posts[k].payload.address = dep.address
    /\ posts[k].payload.deployment_tx_hash = dep.tx_hash

\* C6: register_contracts attempts a POST for every Deployment, in sequence,
\* whatever the earlier POSTs did: while it runs the next item to submit is
\* never held back by a failure, and when it has returned there is one POST
\* per Deployment, the k-th for the k-th Deployment.
C6_EveryDeploymentAttempted ==
    /\ Len(posts) = Len(post_outcomes)
    /\ Len(posts) <= Len(deployments)
    /\ \A k \in DOMAIN posts : Submits(k, deployments[k])
    /\ Registered => Len(posts) = Len(deployments)

\* Three Deployments, the first POST raised and the second returned an HTTP
\* error, and all three were attempted.
C6_Witness ==
    /\ Registered
    /\ Len(deployments) = 3
    /\ Len(posts) = 3
    /\ post_outcomes = << "request_exception", "http_error", "ok" >>

\* C7: after each item success_count is the number of POSTs that returned OK,
\* failure_count the number that returned a non-OK status or raised, and their
\* sum the number of items attempted; on return the sum is the number of
\* Deployments passed in, and the pair returned is the one main() reports.
C7_CountsPartitionAttempts ==
    /\ success_count = Cardinality(OkPosts)
    /\ failure_count = Cardinality(FailedPosts)
    /\ success_count + failure_count = Len(posts)
    /\ pc = "register" => success_count + failure_count = dep_idx
    /\ Registered =>
         /\ success_count + failure_count = Len(deployments)
         /\ LET last == out[Len(out)] IN
              /\ last.kind \in {"success", "partial"}
              /\ last.registered = success_count
              /\ last.kind = "partial" => last.failed = failure_count
              /\ last.kind = "success" => failure_count = 0

\* Three Deployments: one registered, one refused with an HTTP error, one
\* request raised.
C7_Witness ==
    /\ Registered
    /\ Len(deployments) = 3
    /\ success_count = 1
    /\ failure_count = 2
    /\ "http_error" \in Range(post_outcomes)
    /\ "request_exception" \in Range(post_outcomes)

\* How a run can end, read off what the services, the file system and the
\* command line gave it.
FetchFailed == get_outcome \notin {None, "ok"}

CredentialMissing == Unauthenticated

RecordNotFound ==
    /\ possible_exist # <<>>
    /\ \A i \in DOMAIN possible_exist : ~possible_exist[i]

RecordNotLoaded == RecordNotFound \/ ~record_valid

SomeRegistrationFailed == FailedPosts # {}

AllRegistrationsSucceeded ==
    /\ Entered("REGISTER")
    /\ Len(post_outcomes) = Len(deployments)
    /\ FailedPosts = {}

ZeroDeploymentsFound == Entered("CROSS_REFERENCE") /\ deployments = <<>>

DryRunReported ==
    /\ Entered("CROSS_REFERENCE")
    /\ deployments # <<>>
    /\ args.dry_run

\* C8: the exit code is 0 exactly when the run ended with all registrations
\* succeeded, with zero Deployments found or with a dry-run report, and 1
\* exactly when the configuration fetch failed, the record could not be
\* loaded, the required credential was missing or a registration failed.
C8_ExitCode ==
    pc = "exited" =>
        /\ exit_code \in {0, 1}
        /\ exit_code = 0 <=>
             (AllRegistrationsSucceeded \/ ZeroDeploymentsFound \/ DryRunReported)
        /\ exit_code = 1 <=>
             (FetchFailed \/ RecordNotLoaded \/ CredentialMissing
                \/ SomeRegistrationFailed)

\* The second of three registrations got an HTTP error: two succeeded, one
\* failed, exit code 1.
C8_Witness ==
    /\ pc = "exited"
    /\ exit_code = 1
    /\ post_outcomes = << "ok", "http_error", "ok" >>
    /\ success_count = 2
    /\ failure_count = 1

\* C9: a run that ends in a hard failure (configuration fetch error, missing
\* credential on a non-local network, record not found) exits non-zero at the
\* stage that failed, enters no later stage, and has issued no POST.
C9_HardFailureStopsRun ==
    /\ FetchFailed =>
         /\ pc = "exited" /\ exit_code # 0
         /\ stages = << "FETCH_CONFIG" >>
         /\ config = ConfigNone
         /\ posts = <<>> /\ deployments = <<>> /\ broadcast_path = 0
    /\ CredentialMissing /\ pc # "check_auth" =>
         /\ pc = "exited" /\ exit_code # 0
         /\ stages = << "FETCH_CONFIG", "CHECK_AUTH_REQUIREMENT" >>
         /\ posts = <<>> /\ deployments = <<>> /\ broadcast_path = 0
    /\ RecordNotFound =>
         /\ pc = "exited" /\ exit_code # 0
         /\ stages = << "FETCH_CONFIG", "CHECK_AUTH_REQUIREMENT", "LOAD_RECORD" >>
         /\ posts = <<>> /\ deployments = <<>> /\ broadcast = <<>>

\* A live run whose response body carried success = false ended at the fetch.
C9_Witness ==
    /\ get_outcome = "success_false"
    /\ ~args.dry_run
    /\ pc = "exited"
    /\ exit_code = 1
    /\ posts = <<>>

\* C10: when the fetched network configuration has no default_deployer, no
\* registration payload of the run has a deployed_by key.
C10_NoDeployerNoField ==
    (Fetched /\ "default_deployer" \notin DOMAIN config.network) =>
        \A k \in DOMAIN posts : "deployed_by" \notin DOMAIN posts[k].payload

\* Two POSTs were sent under a configuration without default_deployer.
C10_Witness ==
    /\ Fetched
    /\ "default_deployer" \notin DOMAIN config.network
    /\ Len(posts) = 2
    /\ \A k \in DOMAIN posts :
         DOMAIN posts[k].payload =
            {"chain_id", "contract_mapping_id", "address", "deployment_tx_hash"}

\* The stages in their fixed order, for a live run and for a dry run.
LiveOrder ==
    << "FETCH_CONFIG", "CHECK_AUTH_REQUIREMENT", "LOAD_RECORD", "CROSS_REFERENCE",
       "REGISTER" >>

DryOrder ==
    << "FETCH_CONFIG", "CHECK_AUTH_REQUIREMENT", "LOAD_RECORD", "CROSS_REFERENCE",
       "DRY_RUN_REPORT" >>

IsPrefix(p, q) == Len(p) <= Len(q) /\ \A i \in DOMAIN p : p[i] = q[i]

\* C11: the stages a run has entered are always an initial part of the fixed
\* order FETCH_CONFIG, CHECK_AUTH_REQUIREMENT, LOAD_RECORD, CROSS_REFERENCE,
\* then REGISTER or DRY_RUN_REPORT (none skipped, none twice), and a stage is
\* entered only after the previous one completed without error.
C11_StagesInFixedOrder ==
    /\ IsPrefix(stages, LiveOrder) \/ IsPrefix(stages, DryOrder)
    /\ Entered("CHECK_AUTH_REQUIREMENT") => get_outcome = "ok" /\ Fetched
    /\ Entered("LOAD_RECORD") => ~Unauthenticated
    /\ Entered("CROSS_REFERENCE") =>
         /\ broadcast_path # 0 /\ possible_exist[broadcast_path]
         /\ record_valid
    /\ Entered("REGISTER") => ~args.dry_run /\ deployments # <<>>
    /\ Entered("DRY_RUN_REPORT") => args.dry_run /\ deployments # <<>>
    /\ (pc # "exited" /\ pc # "register") => exit_code = -1

\* A live run went through all five stages and ended.
C11_Witness ==
    /\ stages = LiveOrder
    /\ pc = "exited"
    /\ Len(posts) = 2

\* C12: nothing is retried.  At most one configuration GET is sent; the POSTs
\* sent are one for each of the first dep_idx Deployments, in their order, so
\* no Deployment is submitted twice; a failed POST is counted and the loop has
\* moved past it; a failed fetch has ended the run.
C12_NoRetries ==
    /\ Len(gets) <= 1
    /\ Len(posts) = dep_idx
    /\ dep_idx <= Len(deployments)
    /\ \A k \in DOMAIN posts : Submits(k, deployments[k])
    /\ \A k \in FailedPosts : failure_count >= 1 /\ dep_idx >= k
    /\ FetchFailed => (pc = "exited" /\ Len(gets) = 1 /\ posts = <<>>)

\* The first POST failed, and the second POST was for the second Deployment.
C12_Witness ==
    /\ Len(posts) = 2
    /\ post_outcomes[1] = "request_exception"
    /\ deployments[1] # deployments[2]
    /\ Submits(2, deployments[2])
    /\ ~Submits(2, deployments[1])
    /\ Len(gets) = 1

\* The four ways fetch_config is specified to fail.
FetchFailureKinds == { "connection_error", "timeout", "http_error", "success_false" }

\* C13: each of the four failure kinds of fetch_config is reported to the
\* operator as an error whose message no other kind produces, and the run then
\* exits non-zero having entered no later stage and leaving config unset.
C13_FetchFailuresDistinct ==
    get_outcome \in FetchFailureKinds =>
        /\ pc = "exited" /\ exit_code = 1
        /\ stages = << "FETCH_CONFIG" >>
        /\ config = ConfigNone
        /\ Len(out) = 1
        /\ out[1].kind = "error"
        /\ \A o \in FetchFailureKinds :
             FetchRaises(o).type = "RuntimeError"
             /\ (FetchRaises(o).msg = out[1].msg => o = get_outcome)

\* A timed-out fetch was reported as such and ended the run.
C13_Witness ==
    /\ get_outcome = "timeout"
    /\ pc = "exited"
    /\ exit_code = 1
    /\ out = << [kind |-> "error", msg |-> "API request timed out"] >>

\* C14: the record is loaded from the first candidate that exists: the
\* candidate used exists and every candidate before it is missing, a candidate
\* is used whenever one exists, and the path reported is the one used.
C14_FirstExistingCandidate ==
    Entered("LOAD_RECORD") =>
        /\ Len(possible_exist) = NumPossiblePaths
        /\ broadcast_path # 0 =>
             /\ possible_exist[broadcast_path]
             /\ \A j \in 1..(broadcast_path - 1) : ~possible_exist[j]
             /\ \E k \in DOMAIN out :
                  out[k].kind = "loading" /\ out[k].path = broadcast_path
        /\ broadcast_path = 0 => \A j \in DOMAIN possible_exist : ~possible_exist[j]

\* Both candidates exist and the first was loaded; the record was read.
C14_Witness ==
    /\ possible_exist = << TRUE, TRUE >>
    /\ broadcast_path = 1
    /\ Entered("CROSS_REFERENCE")
    /\ broadcast # <<>>

\* Only the second candidate exists and it was loaded.
C14_WitnessFallback ==
    /\ possible_exist = << FALSE, TRUE >>
    /\ broadcast_path = 2
    /\ Entered("CROSS_REFERENCE")

\* C15: when no candidate exists the run ends with the not-found error, whose
\* message names every candidate in order, and with exit code 1; nothing was
\* extracted or registered.
C15_NotFoundListsAllCandidates ==
    RecordNotFound =>
        /\ pc = "exited" /\ exit_code = 1
        /\ LET last == out[Len(out)] IN
             /\ last.kind = "error"
             /\ last.msg = "Broadcast file not found"
             /\ last.searched = [ i \in 1..NumPossiblePaths |-> i ]
        /\ ~Entered("CROSS_REFERENCE") /\ ~Entered("REGISTER")
        /\ ~Entered("DRY_RUN_REPORT")
        /\ deployments = <<>> /\ posts = <<>>
        /\ \A k \in DOMAIN out : out[k].kind \notin {"loading", "found", "skip"}

\* A live run with a key on sepolia found neither candidate.
C15_Witness ==
    /\ possible_exist = << FALSE, FALSE >>
    /\ config.network.network_name = "sepolia"
    /\ ~args.dry_run
    /\ pc = "exited"
    /\ exit_code = 1
    /\ LastStage = "LOAD_RECORD"

\* Indices of the matching transactions of the record, in increasing order.
MatchingSeq ==
    LET names == MappedNames
        IsMatch(i) == /\ broadcast[i].transactionType = "CREATE"
                      /\ broadcast[i].contractName \in names
    IN SelectSeq([ i \in DOMAIN broadcast |-> i ], IsMatch)

\* C16: the k-th Deployment comes from the k-th matching transaction of the
\* record, and the k-th POST submits the address and hash of that same
\* transaction, whatever the earlier POSTs did.
C16_OrderPreserved ==
    Entered("CROSS_REFERENCE") =>
        LET ms == MatchingSeq IN
        /\ Len(deployments) = Len(ms)
        /\ \A k \in DOMAIN deployments :
             BuiltFrom(deployments[k], broadcast[ms[k]])
        /\ \A k \in DOMAIN posts :
             /\ posts[k].payload.address = broadcast[ms[k]].contractAddress
             /\ posts[k].payload.deployment_tx_hash = broadcast[ms[k]].hash

\* The record holds the 0xA2 CREATE before the 0xA1 CREATE; the first POST
\* failed and the second was still the one for 0xA1.
C16_Witness ==
    /\ Len(deployments) = 2
    /\ deployments[1].address = "0xA2"
    /\ deployments[2].address = "0xA1"
    /\ Len(posts) = 2
    /\ post_outcomes[1] = "http_error"
    /\ posts[1].payload.address = "0xA2"
    /\ posts[2].payload.address = "0xA1"

\* The row of the fetched mappings that a contract name is joined with: the
\* row of that solidity_name (the latest one when the name is repeated).
RowFor(name) ==
    LET j == CHOOSE j \in DOMAIN config.mappings :
                /\ config.mappings[j].solidity_name = name
                /\ \A l \in DOMAIN config.mappings :
                     config.mappings[l].solidity_name = name => l <= j
    IN config.mappings[j]

\* The registrations a run intends, from the fetched configuration and the
\* loaded record alone: one db_name/address item per matching transaction,
\* in record order.
Intended ==
    LET ms == MatchingSeq IN
    [ k \in DOMAIN ms |->
        [ db_name |-> RowFor(broadcast[ms[k]].contractName).db_name,
          address |-> broadcast[ms[k]].contractAddress ] ]

\* The db_name/address items of the console lines of the given kinds, in the
\* order they were printed.
ReportedItems(kinds) ==
    LET OfKind(l) == l.kind \in kinds
        lines == SelectSeq(out, OfKind)
    IN [ k \in DOMAIN lines |->
           [ db_name |-> lines[k].db_name, address |-> lines[k].address ] ]

\* The per-item lines of the live run, in the order they were printed. A
\* "Failed" line names the db_name only.
ResultLines ==
    LET IsResult(l) == l.kind \in { "registered", "failed" }
    IN SelectSeq(out, IsResult)

\* The items the live run submitted, in order: the db_name of each per-item
\* line with the address of the POST it reports on.
SubmittedItems ==
    LET lines == ResultLines
    IN [ k \in DOMAIN lines |->
           [ db_name |-> lines[k].db_name, address |-> posts[k].payload.address ] ]

\* Every "Registered" line shows the address that was posted for it.
RegisteredLinesShowPostedAddress ==
    LET lines == ResultLines
    IN \A k \in DOMAIN lines :
          lines[k].kind = "registered" => lines[k].address = posts[k].payload.address

\* C17: the items reported as to be registered depend on the configuration
\* and the record only, not on the dry-run flag: in a dry run and in a live
\* run alike the list printed after extraction is the intended list; the dry
\* run then repeats that list and sends nothing, the live run then submits
\* exactly those items in that order.
C17_DryRunReportsSameItems ==
    LET intended == Intended
        submitted == SubmittedItems
        dry == ReportedItems({"would_register"})
    IN
    /\ Entered("CROSS_REFERENCE") => ReportedItems({"found"}) = intended
    /\ Entered("DRY_RUN_REPORT") =>
         /\ dry = intended
         /\ submitted = <<>>
         /\ posts = <<>>
    /\ Registered =>
         /\ submitted = intended
         /\ RegisteredLinesShowPostedAddress
         /\ dry = <<>>
         /\ Len(posts) = Len(intended)
    /\ ~Entered("CROSS_REFERENCE") =>
         /\ ReportedItems({"found", "would_register"}) = <<>>
         /\ ResultLines = <<>>

\* A dry run reported two different items.
C17_Witness ==
    /\ args.dry_run
    /\ Entered("DRY_RUN_REPORT")
    /\ Len(Intended) = 2
    /\ Intended[1] # Intended[2]
    /\ ReportedItems({"would_register"}) = ReportedItems({"found"})

\* A live run on the same kind of input reported and submitted two items.
C17_WitnessLive ==
    /\ ~args.dry_run
    /\ Registered
    /\ Len(Intended) = 2
    /\ Intended[1] # Intended[2]
    /\ SubmittedItems = ReportedItems({"found"})

\* The fetched network configuration provides a default deployer.
DeployerProvided ==
    /\ Fetched
    /\ "default_deployer" \in DOMAIN config.network
    /\ config.network.default_deployer # ""

\* C18: every POST carries the run's chain id and the mapping_id, address and
\* tx_hash of the Deployment it submits; when the configuration provides a
\* default deployer every payload carries it as deployed_by.
C18_PayloadFields ==
    \A k \in DOMAIN posts :
        LET body == posts[k].payload IN
        /\ body.chain_id = args.chain_id
        /\ body.chain_id = gets[1].chain_id
        /\ body.contract_mapping_id = deployments[k].mapping_id
        /\ body.address = deployments[k].address
        /\ body.deployment_tx_hash = deployments[k].tx_hash
        /\ DeployerProvided =>
             /\ "deployed_by" \in DOMAIN body
             /\ body.deployed_by = config.network.default_deployer

\* Two POSTs on the public test chain, each with the deployer's address.
C18_Witness ==
    /\ args.chain_id = 11155111
    /\ DeployerProvided
    /\ Len(posts) = 2
    /\ posts[1].payload.deployed_by = "0xDeployer"
    /\ posts[2].payload.chain_id = 11155111

\* C19: each Deployment joins one CREATE transaction of the record with the
\* mapping row of the same name: name, address and hash are that
\* transaction's, db_name and mapping_id are that row's.
C19_DeploymentIsJoin ==
    Entered("CROSS_REFERENCE") =>
        LET ms == MatchingSeq IN
        /\ Len(deployments) <= Len(ms)
        /\ \A k \in DOMAIN deployments :
            LET d == deployments[k]
                tx == broadcast[ms[k]]
                row == RowFor(tx.contractName)
            IN /\ tx.transactionType = "CREATE"
               /\ d.solidity_name = tx.contractName
               /\ d.address = tx.contractAddress
               /\ d.tx_hash = tx.hash
               /\ row.solidity_name = d.solidity_name
               /\ d.db_name = row.db_name
               /\ d.mapping_id = row.id
               /\ DOMAIN d = {"solidity_name", "db_name", "mapping_id", "address", "tx_hash"}

\* Under the mappings Token, Staking a record with a CALL and the two Staking
\* CREATEs gave two Deployments of mapping 1 with their own addresses.
C19_Witness ==
    /\ Entered("CROSS_REFERENCE")
    /\ config.mappings = << mToken, mStaking >>
    /\ Len(broadcast) = 3
    /\ broadcast[1].transactionType = "CALL"
    /\ Len(deployments) = 2
    /\ deployments[1].mapping_id = 1
    /\ deployments[1].db_name = "nexusStaking"
    /\ deployments[1].tx_hash # deployments[2].tx_hash

\* C20: registrar.config is written only by a successful fetch_config, once,
\* from None; loading the record, extracting and registering leave it as it
\* was fetched.
C20_ConfigWrittenOnce ==
    [][ /\ config' # config =>
             /\ pc = "fetch_config" /\ pc' = "check_auth"
             /\ config = ConfigNone
             /\ get_outcome' = "ok"
             /\ config' \in Configs
        /\ Fetched => config' = config
        /\ pc' = "check_auth" => config' # ConfigNone
      ]_vars

\* A run sent its last POST with the configuration fetched at its start.
C20_Witness ==
    /\ Registered
    /\ Len(posts) = 3
    /\ DeployerProvided
    /\ posts[3].payload.deployed_by = config.network.default_deployer
    /\ out[1] = [kind |-> "network",
                 network_name |-> config.network.network_name,
                 mapping_count |-> Len(config.mappings)]

\* ------------------------------------------------- termination of main()

\* main() is straight-line code around one bounded for loop: whenever it has
\* a next step the interpreter takes it, and each network call returns or
\* raises within its timeout (requests.get and requests.post are given
\* timeout=10), so no step of Next stays enabled forever without being taken.
\* Whether a run ends depends on how many Deployments the record yields, not
\* on which contracts they are: the runs checked for termination read records
\* made of one transaction that yields a Deployment and one that is skipped.
TerminationRecords ==
    SeqsUpTo({ tx \in Transactions : tx.hash \in {"0xH1", "0xH3"} }, MaxTx)

LoadTerminationRecord == LoadRecordFrom(TerminationRecords)

FairNext ==
    \/ FetchConfig
    \/ CheckAuth
    \/ LoadTerminationRecord
    \/ CrossReference
    \/ NoContracts
    \/ DryRunReport
    \/ BeginRegister
    \/ RegisterOne
    \/ Summary

FairSpec == Init /\ [][FairNext]_vars /\ WF_vars(FairNext)

\* The terminal states, told apart by what the run met.
TerminalSuccess ==
    AllRegistrationsSucceeded \/ ZeroDeploymentsFound \/ DryRunReported

TerminalPartialFailure == Entered("REGISTER") /\ SomeRegistrationFailed

TerminalHardFailure == FetchFailed \/ CredentialMissing \/ RecordNotLoaded

TerminalStates ==
    << TerminalSuccess, TerminalPartialFailure, TerminalHardFailure >>

\* C21: every run of main() ends, in exactly one of the terminal states
\* SUCCESS, PARTIAL_FAILURE and HARD_FAILURE, and up to there it has sent at
\* most one configuration GET and at most one POST per Deployment.
C21_RunTerminates ==
    /\ <>(pc = "exited")
    /\ [](pc = "exited" =>
            Cardinality({ k \in DOMAIN TerminalStates : TerminalStates[k] }) = 1)
    /\ [](/\ Len(gets) <= 1
          /\ Len(posts) <= Len(deployments)
          /\ Len(posts) = dep_idx)

\* A run ended in PARTIAL_FAILURE after one GET and three POSTs, the last of
\* which failed.
C21_Witness ==
    /\ pc = "exited"
    /\ TerminalPartialFailure
    /\ ~TerminalSuccess /\ ~TerminalHardFailure
    /\ Len(gets) = 1
    /\ Len(posts) = 3
    /\ post_outcomes[3] = "request_exception"

\* --------------------------------------- the registrar's methods on their own

\* A caller other than main() constructs a registrar and calls its methods in
\* any order, MaxCalls times at most; pc = "methods" between two calls.
MaxCalls == 2

CallRecord(method, raised) == [method |-> method, raised |-> raised]

\* The lists handed to register_contracts: the one extract_deployments
\* returned last, or one built elsewhere.
DeploymentArgs ==
    { deployments,
      << MakeDeployment(CHOOSE tx \in Transactions : tx.hash = "0xH1", mStaking) >> }

MethodInit ==
    /\ \E a \in [chain_id : ChainIds, api_key : {"secret-key"}, dry_run : {FALSE}] :
          RegistrarInit(a)
    /\ pc = "methods"
    /\ GovIdle
    /\ DelegIdle
    /\ DetIdle
    /\ MineIdle
    /\ NftIdle

\* registrar.fetch_config(chain_id), lines 42-58
CallFetchConfig ==
    /\ pc = "methods"
    /\ Len(calls) < MaxCalls
    /\ \E outcome \in GetOutcomes, data \in Configs :
        LET exc == FetchRaises(outcome) IN
        /\ gets' = Append(gets, [chain_id |-> args.chain_id, headers |-> headers])
        /\ get_outcome' = outcome
        /\ config' = ConfigAfterFetch(config, outcome, data)
        /\ calls' = Append(calls, CallRecord("fetch_config", exc.type))
    /\ UNCHANGED << args, headers, pc, possible_exist, broadcast_path, record_valid,
                    broadcast, deployments, dep_idx, posts, post_outcomes,
                    success_count, failure_count, out, stages, exit_code >>
    /\ UNCHANGED script_vars

\* registrar.extract_deployments(broadcast), lines 92-118
CallExtractDeployments ==
    /\ pc = "methods"
    /\ Len(calls) < MaxCalls
    /\ \E content \in TerminationRecords :
        LET r == extract_deployments(config, content) IN
        /\ broadcast' = content
        /\ calls' = Append(calls, CallRecord("extract_deployments", r.raised))
        /\ deployments' = IF r.raised # None THEN deployments ELSE r.deployments
        /\ out' = out \o r.printed
    /\ UNCHANGED << args, headers, config, pc, get_outcome, gets, possible_exist,
                    broadcast_path, record_valid, dep_idx, posts, post_outcomes,
                    success_count, failure_count, stages, exit_code >>
    /\ UNCHANGED script_vars

\* registrar.register_contracts(chain_id, deployments) up to its loop,
\* lines 126-133
CallRegisterContracts ==
    /\ pc = "methods"
    /\ Len(calls) < MaxCalls
    /\ \E deps \in DeploymentArgs :
        IF config = ConfigNone
        THEN /\ calls' = Append(calls, CallRecord("register_contracts", "RuntimeError"))
             /\ UNCHANGED << config, pc, deployments, dep_idx, success_count,
                             failure_count, post_outcomes >>
        ELSE /\ calls' = Append(calls, CallRecord("register_contracts", None))
             /\ config' = ConfigAfterGetDeployer(config)
             /\ deployments' = deps
             /\ dep_idx' = 0
             /\ success_count' = 0
             /\ failure_count' = 0
             /\ post_outcomes' = <<>>
             /\ pc' = "register"
    /\ UNCHANGED << args, headers, get_outcome, gets, possible_exist, broadcast_path,
                    record_valid, broadcast, posts, out, stages, exit_code >>
    /\ UNCHANGED script_vars

\* register_contracts returns its two counts, line 163
ReturnFromRegister ==
    /\ pc = "register"
    /\ ~LoopContinues(dep_idx, deployments, post_outcomes)
    /\ pc' = "methods"
    /\ UNCHANGED << args, headers, config, get_outcome, gets, possible_exist,
                    broadcast_path, record_valid, broadcast, deployments, dep_idx,
                    posts, post_outcomes, success_count, failure_count, out, stages,
                    exit_code >>
    /\ UNCHANGED other_vars

MethodNext ==
    \/ CallFetchConfig
    \/ CallExtractDeployments
    \/ CallRegisterContracts
    \/ RegisterOne
    \/ ReturnFromRegister

MethodSpec == MethodInit /\ [][MethodNext]_vars

NeverFetched ==
    \A i \in DOMAIN calls :
        calls[i].method = "fetch_config" => calls[i].raised # None

\* C22: a fetch_config that fails in one of its four ways raises and does not
\* write registrar.config, so a registrar whose fetches all failed has no
\* configuration; called on a registrar without configuration,
\* extract_deployments and register_contracts raise, send no request and
\* return nothing; no POST is ever sent by a registrar without configuration.
C22_NoWorkWithoutConfig ==
    /\ [](NeverFetched => config = ConfigNone /\ posts = <<>> /\ deployments = <<>>)
    /\ [][ Len(calls') = Len(calls) + 1 =>
             LET c == calls'[Len(calls')] IN
             /\ c.method = "fetch_config" /\ get_outcome' \in FetchFailureKinds =>
                  /\ c.raised = "RuntimeError"
                  /\ config' = config
             /\ c.method = "fetch_config" /\ c.raised = None =>
                  /\ get_outcome' = "ok"
                  /\ config' \in Configs
             /\ c.method \in {"extract_deployments", "register_contracts"} =>
                  /\ c.raised # None <=> config = ConfigNone
                  /\ config = ConfigNone =>
                       /\ c.raised = "RuntimeError"
                       /\ gets' = gets /\ posts' = posts
                       /\ deployments' = deployments
                       /\ out' = out
                       /\ pc' = "methods"
                       /\ config' = ConfigNone
       ]_vars

\* The fetch timed out, and register_contracts, called with a Deployment all
\* the same, raised without sending a POST.
C22_Witness ==
    /\ Len(calls) = 2
    /\ calls[1] = CallRecord("fetch_config", "RuntimeError")
    /\ get_outcome = "timeout"
    /\ calls[2] = CallRecord("register_contracts", "RuntimeError")
    /\ config = ConfigNone
    /\ posts = <<>>

\* ------------------------------------- scripts/test_governance.py: the driver

\* A Python bool held next to None in result1 and result2.
PyBool(b) == IF b THEN "True" ELSE "False"

\* STATES (lines 35-44); what state(uint256) may answer.
ProposalStates == 0..7

\* Variant: any state but Defeated lets the test go on to queue.
IsSucceeded_NotDefeated(state) == state # 3

\* line 256: the check before queue.
IsSucceeded(state) == state = 4

\* Variant: a proposal still Queued counts as executed.
IsExecuted_AtLeastQueued(state) == state \in {5, 7}

\* lines 301 and 429: the check after execute.
IsExecuted(state) == state = 7

\* What a stretch of a test (some reads, then one operation) can do: a read
\* raised before the operation (call_contract, get_block_number and
\* get_contracts raise on failure), the operation itself raised (send_tx on a
\* failed transaction, mine_blocks out of get_block_number), or all went well.
StretchOutcomes == { "raised_before", "failed", "ok" }

\* One entry of gov_trace (value: the state read, -1 for anything else).
GovEvent(test, op, ok, value) ==
    [test |-> test, op |-> op, ok |-> ok, value |-> value]

TraceAfter(trace, test, op, outcome) ==
    IF outcome = "raised_before"
    THEN trace
    ELSE Append(trace, GovEvent(test, op, outcome = "ok", -1))

\* lines 469-473: an exception out of either test ends the driver with 1.
GovRaise ==
    /\ gov_pc' = "exited"
    /\ gov_raised' = TRUE
    /\ gov_exit' = 1

GovGoto(position) ==
    /\ gov_pc' = position
    /\ UNCHANGED << gov_raised, gov_exit >>

\* Variant: one passing test is enough for exit status 0.
ExitStatus_EitherTest(r1, r2) == IF r1 = "True" \/ r2 = "True" THEN 0 ELSE 1

\* line 467
ExitStatus(r1, r2) == IF r1 = "True" /\ r2 = "True" THEN 0 ELSE 1

\* Variant: Test 2 is started whatever Test 1 returned.
RunsTest2_Always(r1) == TRUE

\* line 454
RunsTest2(r1) == r1 = "True"

GovInit ==
    /\ gov_pc = "main"
    /\ gov_trace = <<>>
    /\ result1 = None
    /\ result2 = None
    /\ gov_raised = FALSE
    /\ gov_exit = -1
    /\ RegistrarIdle
    /\ DelegIdle
    /\ DetIdle
    /\ MineIdle
    /\ NftIdle

\* lines 445-452: the driver calls Test 1.
MainStart ==
    /\ gov_pc = "main"
    /\ GovGoto("t1_propose")
    /\ UNCHANGED << gov_trace, result1, result2 >>
    /\ UNCHANGED not_gov_vars

\* A stretch of a test: reads, then operation op; on success the test goes on
\* to position next.
Stretch(from, test, op, next) ==
    /\ gov_pc = from
    /\ \E outcome \in StretchOutcomes :
        /\ gov_trace' = TraceAfter(gov_trace, test, op, outcome)
        /\ IF outcome = "ok" THEN GovGoto(next) ELSE GovRaise
    /\ UNCHANGED << result1, result2 >>
    /\ UNCHANGED not_gov_vars

\* lines 157-190: addresses, voting power and parameters, then propose
T1Propose == Stretch("t1_propose", 1, "propose", "t1_mine_to_active")

\* lines 192-234: proposal id, status, snapshot block, then mine_blocks
T1MineToActive == Stretch("t1_mine_to_active", 1, "mine_blocks", "t1_cast_vote")

\* lines 235-239: status, then castVote
T1CastVote == Stretch("t1_cast_vote", 1, "castVote", "t1_mine_past_deadline")

\* lines 242-252: votes, status, deadline, then mine_blocks
T1MinePastDeadline ==
    Stretch("t1_mine_past_deadline", 1, "mine_blocks", "t1_check_succeeded")

\* lines 253-258: status, then the state is read and checked
T1CheckSucceeded ==
    /\ gov_pc = "t1_check_succeeded"
    /\ \/ /\ GovRaise
          /\ UNCHANGED << gov_trace, result1 >>
       \/ \E state \in ProposalStates :
            /\ gov_trace' = Append(gov_trace, GovEvent(1, "state", TRUE, state))
            /\ IF IsSucceeded(state)
               THEN GovGoto("t1_queue") /\ result1' = result1
               ELSE GovGoto("main_after_test1") /\ result1' = "False"
    /\ UNCHANGED result2
    /\ UNCHANGED not_gov_vars

\* lines 260-267: queue
T1Queue == Stretch("t1_queue", 1, "queue", "t1_advance_timelock")

\* lines 268-286: status, eta and current time; when the eta is still ahead,
\* increase_time, whose failure is printed and otherwise ignored, and whose
\* mine_blocks(1) may raise.
T1AdvanceTimelock ==
    /\ gov_pc = "t1_advance_timelock"
    /\ \/ /\ GovRaise
          /\ UNCHANGED gov_trace
       \/ \E time_to_wait_positive \in BOOLEAN :
            IF time_to_wait_positive
            THEN \E outcome \in { "rpc_failed", "mine_raised", "ok" } :
                   /\ gov_trace' = Append(gov_trace,
                          GovEvent(1, "increase_time", outcome # "rpc_failed", -1))
                   /\ IF outcome = "mine_raised"
                      THEN GovRaise ELSE GovGoto("t1_execute")
            ELSE /\ gov_trace' = gov_trace
                 /\ GovGoto("t1_execute")
    /\ UNCHANGED << result1, result2 >>
    /\ UNCHANGED not_gov_vars

\* lines 288-297: status, then execute
T1Execute == Stretch("t1_execute", 1, "execute", "t1_check_executed")

\* lines 298-308: status, then the state is read: True exactly for Executed
T1CheckExecuted ==
    /\ gov_pc = "t1_check_executed"
    /\ \/ /\ GovRaise
          /\ UNCHANGED << gov_trace, result1 >>
       \/ \E state \in ProposalStates :
            /\ gov_trace' = Append(gov_trace, GovEvent(1, "state", TRUE, state))
            /\ result1' = PyBool(IsExecuted(state))
            /\ GovGoto("main_after_test1")
    /\ UNCHANGED result2
    /\ UNCHANGED not_gov_vars

\* lines 454-459: Test 2 is called only when Test 1 returned True.
MainAfterTest1 ==
    /\ gov_pc = "main_after_test1"
    /\ IF RunsTest2(result1)
       THEN GovGoto("t2_transfer") /\ result2' = result2
       ELSE GovGoto("main_exit") /\ result2' = "False"
    /\ UNCHANGED << gov_trace, result1 >>
    /\ UNCHANGED not_gov_vars

\* lines 317-333: addresses and voting power, then transfer to account 1
T2Transfer == Stretch("t2_transfer", 2, "transfer", "t2_delegate0")

\* line 337: account 0 delegates to account 1
T2DelegateAccount0 == Stretch("t2_delegate0", 2, "delegate", "t2_delegate1")

\* line 338: account 1 delegates to itself
T2DelegateAccount1 == Stretch("t2_delegate1", 2, "delegate", "t2_propose")

\* lines 341-359: voting power, then propose from account 1
T2Propose == Stretch("t2_propose", 2, "propose", "t2_mine_to_active")

\* lines 361-377: proposal id, status, snapshot block, then mine_blocks
T2MineToActive == Stretch("t2_mine_to_active", 2, "mine_blocks", "t2_cast_vote")

\* lines 378-382: status, then castVote
T2CastVote == Stretch("t2_cast_vote", 2, "castVote", "t2_mine_past_deadline")

\* lines 383-391: status, deadline, then mine_blocks
T2MinePastDeadline ==
    Stretch("t2_mine_past_deadline", 2, "mine_blocks", "t2_check_succeeded")

\* lines 392-397
T2CheckSucceeded ==
    /\ gov_pc = "t2_check_succeeded"
    /\ \/ /\ GovRaise
          /\ UNCHANGED << gov_trace, result2 >>
       \/ \E state \in ProposalStates :
            /\ gov_trace' = Append(gov_trace, GovEvent(2, "state", TRUE, state))
            /\ IF IsSucceeded(state)
               THEN GovGoto("t2_queue") /\ result2' = result2
               ELSE GovGoto("main_exit") /\ result2' = "False"
    /\ UNCHANGED result1
    /\ UNCHANGED not_gov_vars

\* lines 399-406
T2Queue == Stretch("t2_queue", 2, "queue", "t2_advance_timelock")

\* lines 408-418
T2AdvanceTimelock ==
    /\ gov_pc = "t2_advance_timelock"
    /\ \/ /\ GovRaise
          /\ UNCHANGED gov_trace
       \/ \E time_to_wait_positive \in BOOLEAN :
            IF time_to_wait_positive
            THEN \E outcome \in { "rpc_failed", "mine_raised", "ok" } :
                   /\ gov_trace' = Append(gov_trace,
                          GovEvent(2, "increase_time", outcome # "rpc_failed", -1))
                   /\ IF outcome = "mine_raised"
                      THEN GovRaise ELSE GovGoto("t2_execute")
            ELSE /\ gov_trace' = gov_trace
                 /\ GovGoto("t2_execute")
    /\ UNCHANGED << result1, result2 >>
    /\ UNCHANGED not_gov_vars

\* lines 420-425
T2Execute == Stretch("t2_execute", 2, "execute", "t2_check_executed")

\* lines 426-432 and 440-442: False is returned at once, True only after the
\* cleanup
T2CheckExecuted ==
    /\ gov_pc = "t2_check_executed"
    /\ \/ /\ GovRaise
          /\ UNCHANGED << gov_trace, result2 >>
       \/ \E state \in ProposalStates :
            /\ gov_trace' = Append(gov_trace, GovEvent(2, "state", TRUE, state))
            /\ IF IsExecuted(state)
               THEN GovGoto("t2_restore0") /\ result2' = result2
               ELSE GovGoto("main_exit") /\ result2' = "False"
    /\ UNCHANGED result1
    /\ UNCHANGED not_gov_vars

\* line 436: account 0 delegates to itself again
T2RestoreAccount0 == Stretch("t2_restore0", 2, "delegate", "t2_restore1")

\* line 437
T2RestoreAccount1 == Stretch("t2_restore1", 2, "delegate", "t2_return")

\* line 439
T2ReturnTrue ==
    /\ gov_pc = "t2_return"
    /\ result2' = "True"
    /\ GovGoto("main_exit")
    /\ UNCHANGED << gov_trace, result1 >>
    /\ UNCHANGED not_gov_vars

\* lines 461-467
MainExit ==
    /\ gov_pc = "main_exit"
    /\ gov_pc' = "exited"
    /\ gov_exit' = ExitStatus(result1, result2)
    /\ UNCHANGED << gov_trace, result1, result2, gov_raised >>
    /\ UNCHANGED not_gov_vars

GovNext ==
    \/ MainStart
    \/ T1Propose
    \/ T1MineToActive
    \/ T1CastVote
    \/ T1MinePastDeadline
    \/ T1CheckSucceeded
    \/ T1Queue
    \/ T1AdvanceTimelock
    \/ T1Execute
    \/ T1CheckExecuted
    \/ MainAfterTest1
    \/ T2Transfer
    \/ T2DelegateAccount0
    \/ T2DelegateAccount1
    \/ T2Propose
    \/ T2MineToActive
    \/ T2CastVote
    \/ T2MinePastDeadline
    \/ T2CheckSucceeded
    \/ T2Queue
    \/ T2AdvanceTimelock
    \/ T2Execute
    \/ T2CheckExecuted
    \/ T2RestoreAccount0
    \/ T2RestoreAccount1
    \/ T2ReturnTrue
    \/ MainExit

GovSpec == GovInit /\ [][GovNext]_vars

\* The steps of the module docstring (lines 5-12) as operations on the chain;
\* step 6 is taken only when the eta is still ahead.
DocumentedOrder ==
    << "propose", "mine_blocks", "castVote", "mine_blocks", "queue",
       "increase_time", "execute" >>

OrderWithoutWait ==
    << "propose", "mine_blocks", "castVote", "mine_blocks", "queue", "execute" >>

EventsOf(test) == SelectSeq(gov_trace, LAMBDA e : e.test = test)

OpsOf(events) ==
    LET acts == SelectSeq(events, LAMBDA e : e.op # "state")
    IN [ i \in 1..Len(acts) |-> acts[i].op ]

\* C23: test_governance_direct_voting works on the chain in the documented
\* order; it sends queue only right after it read the state Succeeded (4),
\* sends execute only after a queue that went through, and returns True only
\* when the state it read after a successful execute is Executed (7).
C23_DirectVotingLifecycle ==
    LET ev == EventsOf(1)
        ops == OpsOf(ev)
    IN /\ IsPrefix(ops, DocumentedOrder) \/ IsPrefix(ops, OrderWithoutWait)
       /\ \A i \in DOMAIN ev :
            /\ ev[i].op = "queue" =>
                 /\ i > 1
                 /\ ev[i - 1] = GovEvent(1, "state", TRUE, 4)
            /\ ev[i].op = "execute" =>
                 \E j \in 1..(i - 1) : ev[j] = GovEvent(1, "queue", TRUE, -1)
       /\ result1 = "True" =>
            /\ Len(ev) >= 2
            /\ ev[Len(ev)] = GovEvent(1, "state", TRUE, 7)
            /\ ev[Len(ev) - 1] = GovEvent(1, "execute", TRUE, -1)
            /\ ops \in { DocumentedOrder, OrderWithoutWait }

\* Test 1 returned True after the whole documented lifecycle, time advance
\* included.
C23_Witness ==
    /\ result1 = "True"
    /\ OpsOf(EventsOf(1)) = DocumentedOrder
    /\ \E i \in DOMAIN gov_trace : gov_trace[i] = GovEvent(1, "state", TRUE, 4)

\* C24: Test 2 works on the chain only after Test 1 returned True; the driver
\* exits with 0 exactly when both tests returned True, and with 1 when a test
\* returned False or an exception reached the handler.
C24_DriverExitCode ==
    /\ EventsOf(2) # <<>> \/ gov_pc \in {"t2_transfer"} => result1 = "True"
    /\ result2 = "True" => result1 = "True"
    /\ gov_pc = "exited" =>
         /\ gov_exit \in {0, 1}
         /\ gov_exit = 0 <=> (result1 = "True" /\ result2 = "True")
         /\ (result1 = "False" \/ result2 = "False" \/ gov_raised) => gov_exit = 1
    /\ gov_pc # "exited" => gov_exit = -1
    /\ result1 = "False" /\ gov_pc \notin {"main_after_test1"} =>
         result2 = "False" /\ EventsOf(2) = <<>>

\* Test 1 passed, Test 2 found its proposal Defeated: exit status 1.
C24_Witness ==
    /\ gov_pc = "exited"
    /\ result1 = "True"
    /\ result2 = "False"
    /\ ~gov_raised
    /\ gov_exit = 1
    /\ gov_trace[Len(gov_trace)] = GovEvent(2, "state", TRUE, 3)

\* Both tests passed: exit status 0.
C24_WitnessPass ==
    /\ gov_pc = "exited"
    /\ result1 = "True" /\ result2 = "True"
    /\ gov_exit = 0

\* ------------------------- scripts/test_governance_delegation.py: the test

\* line 548: the allowance looked for, in whole tokens (the script compares
\* wei, 10^18 to the token).
ExpectedAllowance == 1000

\* What allowance(account0, account2) may answer, in whole tokens.
Allowances == { 0, ExpectedAllowance }

\* line 260
DelegationPointsTo(new_delegate, delegatee) == new_delegate = delegatee

\* line 548
AllowanceMatches(allowance) == allowance = ExpectedAllowance

Verdict(held) == IF held THEN "held" ELSE "failed"

\* sys.exit(1) of run_cast and run_cast_send (lines 79-82, 93-96) and of the
\* steps, and the handlers of main (lines 624-631): the script ends with 1.
DelegExit(code) ==
    /\ deleg_pc' = "exited"
    /\ deleg_exit' = code

DelegGoto(position) ==
    /\ deleg_pc' = position
    /\ deleg_exit' = deleg_exit

DelegInit ==
    /\ deleg_pc = "check_initial_state"
    /\ deleg_checks = [ c \in CheckNames |-> "none" ]
    /\ deleg_out = <<>>
    /\ deleg_exit = -1
    /\ RegistrarIdle
    /\ GovIdle
    /\ DetIdle
    /\ MineIdle
    /\ NftIdle

\* A step that only goes on or ends the script: every command it runs is
\* checked.
PlainStep(from, next) ==
    /\ deleg_pc = from
    /\ \E ok \in BOOLEAN : IF ok THEN DelegGoto(next) ELSE DelegExit(1)
    /\ UNCHANGED << deleg_checks, deleg_out >>
    /\ UNCHANGED not_deleg_vars

\* lines 205-223
StepCheckInitialState == PlainStep("check_initial_state", "delegate")

\* lines 226-264
StepDelegateVotingPower ==
    /\ deleg_pc = "delegate"
    /\ \/ /\ DelegExit(1)
          /\ UNCHANGED << deleg_checks, deleg_out >>
       \/ \E new_delegate \in { "account0", "account1" } :
            LET held == DelegationPointsTo(new_delegate, "account1") IN
            /\ deleg_checks' = [deleg_checks EXCEPT !["delegation"] = Verdict(held)]
            /\ IF held
               THEN /\ deleg_out' = Append(deleg_out, "Delegation successful!")
                    /\ DelegGoto("create_proposal")
               ELSE /\ deleg_out' = Append(deleg_out, "Delegation failed!")
                    /\ DelegExit(1)
    /\ UNCHANGED not_deleg_vars

\* lines 267-352
StepCreateProposal == PlainStep("create_proposal", "advance_to_active")

\* lines 355-381 with mine_blocks (lines 116-124): the anvil_mine calls are
\* unchecked, and a state other than Active after them is only warned about.
StepAdvanceToActive ==
    /\ deleg_pc = "advance_to_active"
    /\ \/ /\ DelegExit(1)
          /\ UNCHANGED << deleg_checks, deleg_out >>
       \/ \E state \in ProposalStates :
            IF state = 0
            THEN \E mine_ok \in BOOLEAN :
                   \/ /\ deleg_checks' =
                           [deleg_checks EXCEPT !["mine_rpc_delay"] = Verdict(mine_ok)]
                      /\ deleg_out' = deleg_out
                      /\ DelegExit(1)
                   \/ \E new_state \in ProposalStates :
                        /\ deleg_checks' =
                             [deleg_checks EXCEPT
                                !["mine_rpc_delay"] = Verdict(mine_ok),
                                !["active"] = Verdict(new_state = 1)]
                        /\ deleg_out' = Append(deleg_out,
                             IF new_state = 1 THEN "Proposal is now Active!"
                                              ELSE "Expected Active (1)")
                        /\ DelegGoto("vote")
            ELSE /\ UNCHANGED << deleg_checks, deleg_out >>
                 /\ DelegGoto("vote")
    /\ UNCHANGED not_deleg_vars

\* lines 384-411
StepVoteWithDelegation == PlainStep("vote", "advance_past_voting")

\* lines 414-434: only Defeated (3) ends the script; any other state that
\* is not Succeeded passes without a word.
StepAdvancePastVoting ==
    /\ deleg_pc = "advance_past_voting"
    /\ \E mine_ok \in BOOLEAN :
        \/ /\ deleg_checks' =
                [deleg_checks EXCEPT !["mine_rpc_period"] = Verdict(mine_ok)]
           /\ deleg_out' = deleg_out
           /\ DelegExit(1)
        \/ \E state \in ProposalStates :
             /\ deleg_checks' =
                  [deleg_checks EXCEPT
                     !["mine_rpc_period"] = Verdict(mine_ok),
                     !["succeeded"] = Verdict(state = 4)]
             /\ IF state = 4
                THEN /\ deleg_out' = Append(deleg_out, "Proposal Succeeded!")
                     /\ DelegGoto("queue")
                ELSE IF state = 3
                THEN /\ deleg_out' = Append(deleg_out, "Proposal Defeated")
                     /\ DelegExit(1)
                ELSE /\ deleg_out' = deleg_out
                     /\ DelegGoto("queue")
    /\ UNCHANGED not_deleg_vars

\* lines 437-475
StepQueueProposal == PlainStep("queue", "advance_timelock")

\* lines 478-489 with advance_time (lines 127-130): both RPC calls are
\* unchecked; reading the timestamp is checked.
StepAdvanceTimelock ==
    /\ deleg_pc = "advance_timelock"
    /\ \E increased \in BOOLEAN, mine_ok \in BOOLEAN, read \in BOOLEAN :
        /\ deleg_checks' =
             [deleg_checks EXCEPT !["time_rpc"] = Verdict(increased /\ mine_ok)]
        /\ IF read THEN DelegGoto("execute") ELSE DelegExit(1)
    /\ deleg_out' = deleg_out
    /\ UNCHANGED not_deleg_vars

\* lines 492-551: a failed execute ends the script; an allowance other than
\* the expected one is only warned about.
StepExecuteProposal ==
    /\ deleg_pc = "execute"
    /\ \/ /\ DelegExit(1)
          /\ UNCHANGED << deleg_checks, deleg_out >>
       \/ /\ deleg_checks' = [deleg_checks EXCEPT !["execute_tx"] = "failed"]
          /\ deleg_out' = Append(deleg_out, "Execution failed")
          /\ DelegExit(1)
       \/ /\ deleg_checks' = [deleg_checks EXCEPT !["execute_tx"] = "held"]
          /\ deleg_out' = Append(deleg_out, "Proposal executed!")
          /\ DelegExit(1)
       \/ \E allowance \in Allowances :
            /\ deleg_checks' =
                 [deleg_checks EXCEPT
                    !["execute_tx"] = "held",
                    !["allowance"] = Verdict(AllowanceMatches(allowance))]
            /\ deleg_out' = deleg_out \o
                 << "Proposal executed!",
                    IF AllowanceMatches(allowance)
                    THEN "Proposal action executed correctly!"
                    ELSE "Expected 1000 NEXUS allowance" >>
            /\ DelegGoto("restore")
    /\ UNCHANGED not_deleg_vars

\* lines 554-575
StepRestoreDelegation == PlainStep("restore", "banner")

\* lines 619-622: the banner; main() returns and the script ends with 0.
PrintBanner ==
    /\ deleg_pc = "banner"
    /\ deleg_out' = Append(deleg_out, "ALL TESTS PASSED!")
    /\ DelegExit(0)
    /\ UNCHANGED deleg_checks
    /\ UNCHANGED not_deleg_vars

DelegNext ==
    \/ StepCheckInitialState
    \/ StepDelegateVotingPower
    \/ StepCreateProposal
    \/ StepAdvanceToActive
    \/ StepVoteWithDelegation
    \/ StepAdvancePastVoting
    \/ StepQueueProposal
    \/ StepAdvanceTimelock
    \/ StepExecuteProposal
    \/ StepRestoreDelegation
    \/ PrintBanner

DelegSpec == DelegInit /\ [][DelegNext]_vars

BannerPrinted == \E i \in DOMAIN deleg_out : deleg_out[i] = "ALL TESTS PASSED!"

\* C25: the banner "ALL TESTS PASSED" is printed only in runs where every
\* check of every step held: the delegation, the proposal Active and then
\* Succeeded, the mining and time-advance RPC calls, the execute transaction
\* and the allowance.
C25_BannerOnlyWhenAllChecksHeld ==
    BannerPrinted => \A c \in CheckNames : deleg_checks[c] = "held"

\* What the script does guarantee under its banner.
C25_BannerGuarantees ==
    BannerPrinted =>
        /\ deleg_checks["delegation"] = "held"
        /\ deleg_checks["execute_tx"] = "held"
        /\ deleg_exit = 0

\* ------------------ security/slither/detectors/reentrancy_check.py: detectors

\* Nodes per function.
MaxNodes == 2

\* Text (str(modifier), str(node)) is a sequence of characters; `needle in
\* text` of Python is the substring test.
Contains(text, needle) ==
    \E i \in 1..(Len(text) - Len(needle) + 1) :
        SubSeq(text, i, i + Len(needle) - 1) = needle

\* lines 39-48
CRITICAL_FUNCTIONS ==
    << "stake", "unstake", "withdraw", "claim", "claimRewards",
       "completeUnbonding", "unlockTokens", "executeLargeTransfer" >>

\* lines 199-211
PROTECTED_FUNCTIONS ==
    << "mint", "burn", "pause", "unpause", "upgrade", "setAdmin", "grantRole",
       "revokeRole", "slash", "emergencyWithdraw", "setTreasury" >>

\* line 73: "nonReentrant", "ReentrancyGuard"
ReentrancyGuardWords ==
    { << "n", "o", "n", "R", "e", "e", "n", "t", "r", "a", "n", "t" >>,
      << "R", "e", "e", "n", "t", "r", "a", "n", "c", "y", "G", "u", "a", "r", "d" >> }

\* lines 232-238: "onlyOwner", "onlyRole", "onlyAdmin", "requiresAuth",
\* "onlyAuthorized"
access_control_keywords ==
    << << "o", "n", "l", "y", "O", "w", "n", "e", "r" >>,
       << "o", "n", "l", "y", "R", "o", "l", "e" >>,
       << "o", "n", "l", "y", "A", "d", "m", "i", "n" >>,
       << "r", "e", "q", "u", "i", "r", "e", "s", "A", "u", "t", "h" >>,
       << "o", "n", "l", "y", "A", "u", "t", "h", "o", "r", "i", "z", "e", "d" >> >>

\* line 246: "require" and "msg.sender"
RequireWord == << "r", "e", "q", "u", "i", "r", "e" >>
MsgSenderWord == << "m", "s", "g", ".", "s", "e", "n", "d", "e", "r" >>

\* The analysed code: modifier lists a function may carry, as str(modifier)
\* shows them: none; nonReentrant; whenNotPaused with ReentrancyGuardLock;
\* onlyOwner; whenNotPaused with onlyRoleOrAdmin; requiresAuth; ownerOnly.
ModifierLists ==
    { << >>,
      << << "n", "o", "n", "R", "e", "e", "n", "t", "r", "a", "n", "t" >> >>,
      << << "w", "h", "e", "n", "N", "o", "t", "P", "a", "u", "s", "e", "d" >>,
         << "R", "e", "e", "n", "t", "r", "a", "n", "c", "y", "G", "u", "a", "r", "d", "L",
            "o", "c", "k" >> >>,
      << << "o", "n", "l", "y", "O", "w", "n", "e", "r" >> >>,
      << << "w", "h", "e", "n", "N", "o", "t", "P", "a", "u", "s", "e", "d" >>,
         << "o", "n", "l", "y", "R", "o", "l", "e", "O", "r", "A", "d", "m", "i", "n" >> >>,
      << << "r", "e", "q", "u", "i", "r", "e", "s", "A", "u", "t", "h" >> >>,
      << << "o", "w", "n", "e", "r", "O", "n", "l", "y" >> >> }

\* The analysed code: statements, each with its IR operations, the state
\* variables it writes and its text.
NodeKinds ==
    { \* amount=1
      [irs |-> << "Assignment" >>, state_variables_written |-> {},
       text |-> << "a", "m", "o", "u", "n", "t", "=", "1" >>],
      \* token.transfer(msg.sender)
      [irs |-> << "HighLevelCall" >>, state_variables_written |-> {},
       text |-> << "t", "o", "k", "e", "n", ".", "t", "r", "a", "n", "s", "f", "e", "r", "(",
                  "m", "s", "g", ".", "s", "e", "n", "d", "e", "r", ")" >>],
      \* to.call(t.balanceOf())
      [irs |-> << "HighLevelCall", "LowLevelCall" >>, state_variables_written |-> {},
       text |-> << "t", "o", ".", "c", "a", "l", "l", "(", "t", ".", "b", "a", "l", "a", "n",
                  "c", "e", "O", "f", "(", ")", ")" >>],
      \* balances=0
      [irs |-> << "Assignment" >>, state_variables_written |-> { "balances" },
       text |-> << "b", "a", "l", "a", "n", "c", "e", "s", "=", "0" >>],
      \* locked=to.call()
      [irs |-> << "LowLevelCall" >>, state_variables_written |-> { "locked" },
       text |-> << "l", "o", "c", "k", "e", "d", "=", "t", "o", ".", "c", "a", "l", "l", "(",
                  ")" >>],
      \* require(msg.sender==owner)
      [irs |-> << "SolidityCall" >>, state_variables_written |-> {},
       text |-> << "r", "e", "q", "u", "i", "r", "e", "(", "m", "s", "g", ".", "s", "e", "n",
                  "d", "e", "r", "=", "=", "o", "w", "n", "e", "r", ")" >>],
      \* require(amount>0)
      [irs |-> << "SolidityCall" >>, state_variables_written |-> {},
       text |-> << "r", "e", "q", "u", "i", "r", "e", "(", "a", "m", "o", "u", "n", "t", ">",
                  "0", ")" >>],
      \* required[msg.sender]=1
      [irs |-> << "Assignment" >>, state_variables_written |-> { "required" },
       text |-> << "r", "e", "q", "u", "i", "r", "e", "d", "[", "m", "s", "g", ".", "s", "e",
                  "n", "d", "e", "r", "]", "=", "1" >>] }

\* Node ids as Slither numbers them: in the order of function.nodes, or not.
NodeIdOrders == { "ascending", "descending" }

NodeId(order, i, n) == IF order = "ascending" THEN i ELSE n - i + 1

NodeLists ==
    { [ i \in 1..Len(kinds) |->
          [node_id |-> NodeId(order, i, Len(kinds)), irs |-> kinds[i].irs,
           state_variables_written |-> kinds[i].state_variables_written,
           text |-> kinds[i].text] ] :
      kinds \in SeqsUpTo(NodeKinds, MaxNodes), order \in NodeIdOrders }

FunctionNames == { "withdraw", "mint", "helper" }

Functions ==
    { [name |-> n, canonical_name |-> << "Vault", n >>, modifiers |-> m, nodes |-> ns] :
      n \in FunctionNames, m \in ModifierLists, ns \in NodeLists }

\* A contract of the analysed code that is always there next to the varying
\* one: an interface declaring a critical and a protected function.
IVault ==
    [name |-> "IVault", is_interface |-> TRUE, is_abstract |-> FALSE,
     functions |-> << [name |-> "withdraw", canonical_name |-> << "IVault", "withdraw" >>,
                       modifiers |-> << >>, nodes |-> << >>],
                      [name |-> "mint", canonical_name |-> << "IVault", "mint" >>,
                       modifiers |-> << >>, nodes |-> << >>] >>,
     modifiers |-> << >>]

\* Another one: a concrete token with an unprotected burn and a claim that
\* calls out before it writes; it declares two modifiers, unstake, which
\* calls out before it writes, and pause, which checks nothing.
Token ==
    [name |-> "Token", is_interface |-> FALSE, is_abstract |-> FALSE,
     functions |->
       << [name |-> "burn", canonical_name |-> << "Token", "burn" >>,
           modifiers |-> << >>,
           nodes |-> << [node_id |-> 1, irs |-> << "Assignment" >>,
                         state_variables_written |-> { "supply" },
                         text |-> << "s", "u", "p", "p", "l", "y", "=", "0" >>] >>],
          [name |-> "claim", canonical_name |-> << "Token", "claim" >>,
           modifiers |-> << >>,
           nodes |-> << [node_id |-> 1, irs |-> << "HighLevelCall" >>,
                         state_variables_written |-> {},
                         text |-> << "o", "r", "a", "c", "l", "e", ".", "p", "o", "k", "e", "(", ")" >>],
                        [node_id |-> 2, irs |-> << "Assignment" >>,
                         state_variables_written |-> { "claimed" },
                         text |-> << "c", "l", "a", "i", "m", "e", "d", "=", "1" >>] >>] >>,
     modifiers |->
       << [name |-> "unstake", canonical_name |-> << "Token", "unstake" >>,
           modifiers |-> << >>,
           nodes |-> << [node_id |-> 1, irs |-> << "HighLevelCall" >>,
                         state_variables_written |-> {},
                         text |-> << "o", "r", "a", "c", "l", "e", ".", "p", "o", "k", "e", "(", ")" >>],
                        [node_id |-> 2, irs |-> << "Assignment" >>,
                         state_variables_written |-> { "unstaked" },
                         text |-> << "u", "n", "s", "t", "a", "k", "e", "d", "=", "1" >>] >>],
          [name |-> "pause", canonical_name |-> << "Token", "pause" >>,
           modifiers |-> << >>,
           nodes |-> << [node_id |-> 1, irs |-> << "Assignment" >>,
                         state_variables_written |-> { "paused" },
                         text |-> << "p", "a", "u", "s", "e", "d", "=", "1" >>] >>] >>]

\* contracts_derived: the varying contract Vault declares no modifier.
Units ==
    { << IVault,
         [name |-> "Vault", is_interface |-> i, is_abstract |-> a,
          functions |-> << f >>, modifiers |-> << >>],
         Token >> :
      i \in BOOLEAN, a \in BOOLEAN, f \in Functions }

\* line 58: contract.functions_and_modifiers, the declared functions followed
\* by the declared modifiers.
functions_and_modifiers(contract) == contract.functions \o contract.modifiers

\* `x in list`
InList(x, list) == \E i \in DOMAIN list : list[i] = x

\* lines 72-75: any() over the modifiers
has_reentrancy_guard(function) ==
    \E k \in DOMAIN function.modifiers :
        \E word \in ReentrancyGuardWords : Contains(function.modifiers[k], word)

\* line 84
IsExternalCall(ir) == ir \in { "HighLevelCall", "LowLevelCall" }

\* line 87
WritesState(node) == node.state_variables_written # {}

\* lines 82-85: external_calls gets one entry for each call operation of each
\* node, in order.
RECURSIVE ExternalCallsFrom(_, _)
ExternalCallsFrom(nodes, i) ==
    IF i > Len(nodes)
    THEN << >>
    ELSE LET call_irs == SelectSeq(nodes[i].irs, IsExternalCall)
         IN [ k \in 1..Len(call_irs) |-> [node |-> nodes[i], ir |-> call_irs[k]] ]
              \o ExternalCallsFrom(nodes, i + 1)

\* Variant: a write in the node of the call itself counts as after the call.
CallBeforeWrite_NotAfter(call_node, state_node) ==
    call_node.node_id <= state_node.node_id

\* line 93
CallBeforeWrite(call_node, state_node) == call_node.node_id < state_node.node_id

\* lines 94-98: an issue names the function, the node of the call and the
\* variables written.
Issue(function, call, state_node) ==
    [function |-> function.canonical_name,
     call_node |-> call.node.node_id,
     state_node |-> state_node.node_id,
     state_vars |-> state_node.state_variables_written]

\* _check_function, lines 67-100
check_function(function) ==
    IF has_reentrancy_guard(function)
    THEN << >>
    ELSE LET external_calls == ExternalCallsFrom(function.nodes, 1)
             state_changes == SelectSeq(function.nodes, WritesState)
             n == Len(state_changes)
             pairs == [ k \in 1..(Len(external_calls) * n) |->
                          << external_calls[((k - 1) \div n) + 1],
                             state_changes[((k - 1) % n) + 1] >> ]
             found == SelectSeq(pairs, LAMBDA p : CallBeforeWrite(p[1].node, p[2]))
         IN [ k \in 1..Len(found) |-> Issue(function, found[k][1], found[k][2]) ]

\* NexusReentrancyDetector._detect, lines 58-63: the functions and modifiers
\* of one contract
RECURSIVE ReentrancyFunctionsLoop(_, _)
ReentrancyFunctionsLoop(functions, j) ==
    IF j > Len(functions)
    THEN << >>
    ELSE (IF InList(functions[j].name, CRITICAL_FUNCTIONS)
          THEN check_function(functions[j])
          ELSE << >>)
         \o ReentrancyFunctionsLoop(functions, j + 1)

\* NexusReentrancyDetector._detect, lines 53-65
RECURSIVE ReentrancyDetect(_, _)
ReentrancyDetect(contracts, c) ==
    IF c > Len(contracts)
    THEN << >>
    ELSE (IF contracts[c].is_interface \/ contracts[c].is_abstract
          THEN << >>
          ELSE ReentrancyFunctionsLoop(functions_and_modifiers(contracts[c]), 1))
         \o ReentrancyDetect(contracts, c + 1)

\* line 241: any() over the keywords
RECURSIVE AnyKeywordIn(_, _)
AnyKeywordIn(text, j) ==
    IF j > Len(access_control_keywords)
    THEN FALSE
    ELSE IF Contains(text, access_control_keywords[j])
    THEN TRUE
    ELSE AnyKeywordIn(text, j + 1)

\* lines 240-242
RECURSIVE ModifiersLoop(_, _)
ModifiersLoop(modifiers, k) ==
    IF k > Len(modifiers)
    THEN FALSE
    ELSE IF AnyKeywordIn(modifiers[k], 1)
    THEN TRUE
    ELSE ModifiersLoop(modifiers, k + 1)

\* Variant: any require statement counts as an access check.
ChecksSender_AnyRequire(text) == Contains(text, RequireWord)

\* line 246
ChecksSender(text) == Contains(text, RequireWord) /\ Contains(text, MsgSenderWord)

\* lines 245-247
RECURSIVE NodesLoop(_, _)
NodesLoop(nodes, n) ==
    IF n > Len(nodes)
    THEN FALSE
    ELSE IF ChecksSender(nodes[n].text)
    THEN TRUE
    ELSE NodesLoop(nodes, n + 1)

\* _has_access_control, lines 230-249
has_access_control(function) ==
    IF ModifiersLoop(function.modifiers, 1)
    THEN TRUE
    ELSE NodesLoop(function.nodes, 1)

\* lines 223-226
AccessResult(function) == [function |-> function.canonical_name]

\* NexusAccessControlDetector._detect, lines 220-226
RECURSIVE AccessFunctionsLoop(_, _)
AccessFunctionsLoop(functions, j) ==
    IF j > Len(functions)
    THEN << >>
    ELSE (IF InList(functions[j].name, PROTECTED_FUNCTIONS)
             /\ ~has_access_control(functions[j])
          THEN << AccessResult(functions[j]) >>
          ELSE << >>)
         \o AccessFunctionsLoop(functions, j + 1)

\* NexusAccessControlDetector._detect, lines 213-228
RECURSIVE AccessControlDetect(_, _)
AccessControlDetect(contracts, c) ==
    IF c > Len(contracts)
    THEN << >>
    ELSE (IF contracts[c].is_interface \/ contracts[c].is_abstract
          THEN << >>
          ELSE AccessFunctionsLoop(contracts[c].functions, 1))
         \o AccessControlDetect(contracts, c + 1)

DetInit ==
    /\ unit \in Units
    /\ detectors_run = {}
    /\ reentrancy_results = << >>
    /\ access_results = << >>
    /\ RegistrarIdle
    /\ GovIdle
    /\ DelegIdle
    /\ MineIdle
    /\ NftIdle

\* slither runs the detector registered as nexus-reentrancy
RunReentrancyDetector ==
    /\ "nexus-reentrancy" \notin detectors_run
    /\ reentrancy_results' = ReentrancyDetect(unit, 1)
    /\ detectors_run' = detectors_run \cup { "nexus-reentrancy" }
    /\ UNCHANGED << unit, access_results >>
    /\ UNCHANGED not_det_vars

\* slither runs the detector registered as nexus-access-control
RunAccessControlDetector ==
    /\ "nexus-access-control" \notin detectors_run
    /\ access_results' = AccessControlDetect(unit, 1)
    /\ detectors_run' = detectors_run \cup { "nexus-access-control" }
    /\ UNCHANGED << unit, reentrancy_results >>
    /\ UNCHANGED not_det_vars

DetNext ==
    \/ RunReentrancyDetector
    \/ RunAccessControlDetector

DetSpec == DetInit /\ [][DetNext]_vars

\* The functions of the analysed code, each with its contract.
Declared ==
    UNION { { << c, j >> : j \in DOMAIN unit[c].functions } : c \in DOMAIN unit }

\* The functions and the declared modifiers of the analysed code, which
\* Slither hands to the reentrancy detector alike.
DeclaredCallables ==
    UNION { { << c, j >> : j \in DOMAIN functions_and_modifiers(unit[c]) } :
            c \in DOMAIN unit }

Concrete(contract) == ~contract.is_interface /\ ~contract.is_abstract

Unguarded(function) ==
    \A k \in DOMAIN function.modifiers :
        /\ ~Contains(function.modifiers[k],
                     << "n", "o", "n", "R", "e", "e", "n", "t", "r", "a", "n", "t" >>)
        /\ ~Contains(function.modifiers[k],
                     << "R", "e", "e", "n", "t", "r", "a", "n", "c", "y", "G", "u", "a",
                        "r", "d" >>)

ReentrancyCandidate(contract, function) ==
    /\ Concrete(contract)
    /\ function.name \in Range(CRITICAL_FUNCTIONS)
    /\ Unguarded(function)

CallNodes(function) ==
    { a \in DOMAIN function.nodes :
        \E i \in DOMAIN function.nodes[a].irs :
            function.nodes[a].irs[i] \in { "HighLevelCall", "LowLevelCall" } }

WriteNodes(function) ==
    { b \in DOMAIN function.nodes : function.nodes[b].state_variables_written # {} }

\* The (call node, state-writing node) pairs with the call's node_id strictly
\* smaller.
OrderedPairs(function) ==
    { p \in CallNodes(function) \X WriteNodes(function) :
        function.nodes[p[1]].node_id < function.nodes[p[2]].node_id }

ReentrancyResultsFor(function, a, b) ==
    { k \in DOMAIN reentrancy_results :
        /\ reentrancy_results[k].function = function.canonical_name
        /\ reentrancy_results[k].call_node = function.nodes[a].node_id
        /\ reentrancy_results[k].state_node = function.nodes[b].node_id }

ReentrancyReported(function) ==
    \E k \in DOMAIN reentrancy_results :
        reentrancy_results[k].function = function.canonical_name

\* C26: NexusReentrancyDetector reports a function exactly when its contract
\* is neither interface nor abstract, its name is critical, no modifier
\* contains nonReentrant or ReentrancyGuard and some external-call node has a
\* node_id strictly smaller than that of a state-writing node; and it emits
\* exactly one result for each such pair of nodes.
C26_OneResultPerNodePair ==
    "nexus-reentrancy" \in detectors_run =>
        \A d \in DeclaredCallables :
            LET contract == unit[d[1]]
                function == functions_and_modifiers(contract)[d[2]]
            IN /\ ReentrancyReported(function) <=>
                    (ReentrancyCandidate(contract, function)
                       /\ OrderedPairs(function) # {})
               /\ ReentrancyCandidate(contract, function) =>
                    \A p \in OrderedPairs(function) :
                        Cardinality(ReentrancyResultsFor(function, p[1], p[2])) = 1

\* What holds of the detector: which functions it reports, and one result
\* for each external-call operation of the call node of such a pair.
ReentrancyResultsPerCallOperation ==
    "nexus-reentrancy" \in detectors_run =>
        \A d \in DeclaredCallables :
            LET contract == unit[d[1]]
                function == functions_and_modifiers(contract)[d[2]]
            IN /\ ReentrancyReported(function) <=>
                    (ReentrancyCandidate(contract, function)
                       /\ OrderedPairs(function) # {})
               /\ ReentrancyCandidate(contract, function) =>
                    \A p \in OrderedPairs(function) :
                        Cardinality(ReentrancyResultsFor(function, p[1], p[2]))
                          = Cardinality({ i \in DOMAIN function.nodes[p[1]].irs :
                                function.nodes[p[1]].irs[i]
                                  \in { "HighLevelCall", "LowLevelCall" } })

\* The keywords as the claim lists them.
ClaimedKeywords ==
    { << "o", "n", "l", "y", "O", "w", "n", "e", "r" >>,
      << "o", "n", "l", "y", "R", "o", "l", "e" >>,
      << "o", "n", "l", "y", "A", "d", "m", "i", "n" >>,
      << "r", "e", "q", "u", "i", "r", "e", "s", "A", "u", "t", "h" >>,
      << "o", "n", "l", "y", "A", "u", "t", "h", "o", "r", "i", "z", "e", "d" >> }

AccessCandidate(contract, function) ==
    /\ Concrete(contract)
    /\ function.name \in Range(PROTECTED_FUNCTIONS)
    /\ \A k \in DOMAIN function.modifiers, word \in ClaimedKeywords :
          ~Contains(function.modifiers[k], word)
    /\ \A n \in DOMAIN function.nodes :
          ~(/\ Contains(function.nodes[n].text, << "r", "e", "q", "u", "i", "r", "e" >>)
            /\ Contains(function.nodes[n].text,
                        << "m", "s", "g", ".", "s", "e", "n", "d", "e", "r" >>))

AccessResultsFor(function) ==
    { k \in DOMAIN access_results :
        access_results[k].function = function.canonical_name }

\* C27: NexusAccessControlDetector emits exactly one result for each function
\* of a contract that is neither interface nor abstract whose name is
\* protected, none of whose modifiers contains onlyOwner, onlyRole, onlyAdmin,
\* requiresAuth or onlyAuthorized and none of whose nodes contains both
\* "require" and "msg.sender"; it emits none for any other function.
C27_OneResultPerUnprotectedFunction ==
    "nexus-access-control" \in detectors_run =>
        /\ \A d \in Declared :
             LET contract == unit[d[1]]
                 function == contract.functions[d[2]]
             IN Cardinality(AccessResultsFor(function))
                  = IF AccessCandidate(contract, function) THEN 1 ELSE 0
        /\ \A k \in DOMAIN access_results :
             \E d \in Declared :
                unit[d[1]].functions[d[2]].canonical_name = access_results[k].function

\* Vault.mint, whose one modifier is ownerOnly and whose one require does not
\* look at msg.sender, was reported next to Token.burn; the declared modifier
\* Token.pause was not.
C27_Witness ==
    /\ "nexus-access-control" \in detectors_run
    /\ unit[2].functions[1].name = "mint"
    /\ unit[2].functions[1].modifiers = << << "o", "w", "n", "e", "r", "O", "n", "l", "y" >> >>
    /\ Len(unit[2].functions[1].nodes) = 2
    /\ \E n \in 1..2 :
          Contains(unit[2].functions[1].nodes[n].text, << "r", "e", "q", "u", "i", "r", "e" >>)
    /\ access_results = << [function |-> << "Vault", "mint" >>],
                           [function |-> << "Token", "burn" >>] >>

\* -------------------------------------- scripts/test_governance.py: mine_blocks

MaxCount == 4
MaxBatch == 3
MaxFailures == 2

\* mined % 1000 == 0 (line 85)
ProgressEvery == 1000

Min(a, b) == IF a <= b THEN a ELSE b

\* One anvil_mine call: the batch size asked for and whether the RPC succeeded.
MineCall(batch, success) == [batch |-> batch, success |-> success]

RECURSIVE SumBatches(_, _)
SumBatches(log, successful_only) ==
    IF log = <<>>
    THEN 0
    ELSE LET call == log[Len(log)]
         IN SumBatches(SubSeq(log, 1, Len(log) - 1), successful_only)
              + (IF successful_only /\ ~call.success THEN 0 ELSE call.batch)

\* What the chain received: anvil_mine mines its batch when it succeeds.
BlocksMined(log) == SumBatches(log, TRUE)

FailedCalls(log) == Cardinality({ i \in DOMAIN log : ~log[i].success })

\* Line 78 / line 120: batch = min(batch_size, ...)
Batch(size, left) == Min(size, left)

\* Variant: a failed batch is counted as well.
MinedAfter_FailedCounted(before, batch, success) == before + batch

\* Lines 80-84: a failed call leaves mined alone.
MinedAfter(before, batch, success) ==
    IF success THEN before + batch ELSE before

\* Line 85: the progress report, which reads the block number.
ReportsProgress(m, c) == m % ProgressEvery = 0 \/ m >= c

GovMineInit ==
    /\ mine_pc = "loop"
    /\ count \in -1..MaxCount
    /\ batch_size \in 1..MaxBatch
    /\ mined = 0
    /\ remaining = 0
    /\ mine_calls = <<>>
    /\ mine_returned = None
    /\ RegistrarIdle
    /\ GovIdle
    /\ DelegIdle
    /\ DetIdle
    /\ NftIdle

\* Lines 77-83: anvil_mine fails; warn, sleep, continue.
MineRetry ==
    /\ mine_pc = "loop"
    /\ mined < count
    /\ FailedCalls(mine_calls) < MaxFailures
    /\ LET batch == Batch(batch_size, count - mined)
       IN /\ mine_calls' = Append(mine_calls, MineCall(batch, FALSE))
          /\ mined' = MinedAfter(mined, batch, FALSE)
    /\ UNCHANGED << mine_pc, count, batch_size, remaining, mine_returned >>
    /\ UNCHANGED not_mine_vars

\* Lines 77-88: anvil_mine succeeds; a progress report, if due, reads the
\* block number.
MineBatch ==
    /\ mine_pc = "loop"
    /\ mined < count
    /\ LET batch == Batch(batch_size, count - mined)
       IN /\ mine_calls' = Append(mine_calls, MineCall(batch, TRUE))
          /\ mined' = MinedAfter(mined, batch, TRUE)
    /\ UNCHANGED << mine_pc, count, batch_size, remaining, mine_returned >>
    /\ UNCHANGED not_mine_vars

\* Lines 85-86 with lines 66-71: get_block_number raises out of mine_blocks.
MineRaise ==
    /\ mine_pc = "loop"
    /\ mined < count
    /\ LET batch == Batch(batch_size, count - mined)
       IN /\ ReportsProgress(MinedAfter(mined, batch, TRUE), count)
          /\ mine_calls' = Append(mine_calls, MineCall(batch, TRUE))
          /\ mined' = MinedAfter(mined, batch, TRUE)
    /\ mine_pc' = "raised"
    /\ UNCHANGED << count, batch_size, remaining, mine_returned >>
    /\ UNCHANGED not_mine_vars

\* Lines 76 and 89: the loop condition fails; return True.
MineReturn ==
    /\ mine_pc = "loop"
    /\ ~(mined < count)
    /\ mine_pc' = "returned"
    /\ mine_returned' = PyBool(TRUE)
    /\ UNCHANGED << count, batch_size, mined, remaining, mine_calls >>
    /\ UNCHANGED not_mine_vars

GovMineNext == MineRetry \/ MineBatch \/ MineRaise \/ MineReturn

GovMineSpec == GovMineInit /\ [][GovMineNext]_vars

EachBatchWithin(log, size) == \A i \in DOMAIN log : log[i].batch <= size

\* Every failed call is followed by a call for the same batch size.
FailuresRetried(log) ==
    \A i \in DOMAIN log :
        ~log[i].success => i < Len(log) /\ log[i + 1].batch = log[i].batch

\* C28 as stated: for any count, when mine_blocks of test_governance.py
\* returns, the successful batches sum to exactly count, every batch is at
\* most batch_size, every failed call was retried with the same batch size and
\* left uncounted, the last call succeeded, and the value returned is True.
C28_SuccessfulBatchesSumToCount ==
    /\ mine_pc = "loop" => mined = BlocksMined(mine_calls)
    /\ mine_returned \in { None, PyBool(TRUE) }
    /\ mine_pc = "returned" =>
          /\ BlocksMined(mine_calls) = count
          /\ EachBatchWithin(mine_calls, batch_size)
          /\ FailuresRetried(mine_calls)
          /\ \A i \in DOMAIN mine_calls :
                i = Len(mine_calls) => mine_calls[i].success
          /\ mine_returned = PyBool(TRUE)

\* C28, amended: a count below one asks for no call at all, so the successful
\* batches sum to count only for a count of zero or more (to zero below
\* that), and only a positive count makes the return depend on a successful
\* anvil_mine call.
C28_SuccessfulBatchesSumToNonNegativeCount ==
    /\ mine_pc = "loop" => mined = BlocksMined(mine_calls)
    /\ mine_returned \in { None, PyBool(TRUE) }
    /\ mine_pc = "returned" =>
          /\ BlocksMined(mine_calls) = (IF count > 0 THEN count ELSE 0)
          /\ EachBatchWithin(mine_calls, batch_size)
          /\ FailuresRetried(mine_calls)
          /\ IF count > 0
             THEN mine_calls[Len(mine_calls)].success
             ELSE mine_calls = <<>>
          /\ mine_returned = PyBool(TRUE)

\* mine_blocks(3, 2) returned after a failed second call was retried.
C28_Witness ==
    /\ mine_pc = "returned"
    /\ count = 3
    /\ batch_size = 2
    /\ mine_calls = << MineCall(2, TRUE), MineCall(1, FALSE), MineCall(1, TRUE) >>
    /\ mine_returned = PyBool(TRUE)

\* --------------------------- scripts/test_governance_delegation.py: mine_blocks

\* Variant: a batch whose call failed is asked for again.
RemainingAfter_FailedKept(before, batch, success) ==
    IF success THEN before - batch ELSE before

\* Lines 121-122: run_cast(..., check=False) and remaining -= batch; what the
\* call did is not looked at.
RemainingAfter(before, batch, success) == before - batch

\* Lines 116-118: mine_blocks is entered; remaining = count.
DelegMineInit ==
    /\ mine_pc = "delegation_loop"
    /\ count \in 0..MaxCount
    /\ batch_size \in 1..MaxBatch
    /\ remaining = count
    /\ mined = 0
    /\ mine_calls = <<>>
    /\ mine_returned = None
    /\ RegistrarIdle
    /\ GovIdle
    /\ DelegIdle
    /\ DetIdle
    /\ NftIdle

\* Lines 119-123: one iteration; the RPC call succeeds or fails.
DelegMineBatch ==
    /\ mine_pc = "delegation_loop"
    /\ remaining > 0
    /\ \E success \in BOOLEAN :
         LET batch == Batch(batch_size, remaining)
         IN /\ mine_calls' = Append(mine_calls, MineCall(batch, success))
            /\ remaining' = RemainingAfter(remaining, batch, success)
    /\ UNCHANGED << mine_pc, count, batch_size, mined, mine_returned >>
    /\ UNCHANGED not_mine_vars

\* Lines 119 and 124: the loop condition fails; the function ends.
DelegMineReturn ==
    /\ mine_pc = "delegation_loop"
    /\ ~(remaining > 0)
    /\ mine_pc' = "delegation_returned"
    /\ UNCHANGED << count, batch_size, mined, remaining, mine_calls, mine_returned >>
    /\ UNCHANGED not_mine_vars

DelegMineNext == DelegMineBatch \/ DelegMineReturn

DelegMineSpec == DelegMineInit /\ [][DelegMineNext]_vars

\* ceil(c / size) for c >= 0 and size >= 1
CeilDiv(c, size) == (c + size - 1) \div size

\* C29: mine_blocks(count) of test_governance_delegation.py issues anvil_mine
\* calls whose batch sizes sum to count, each at most batch_size, and ends
\* after ceil(count / batch_size) calls; every batch is counted as mined
\* whether or not its call succeeded, so the blocks actually mined equal count
\* only when every call succeeded.
C29_BatchesCountedRegardless ==
    /\ mine_pc = "delegation_loop" =>
          count - remaining = SumBatches(mine_calls, FALSE)
    /\ mine_pc = "delegation_returned" =>
          /\ SumBatches(mine_calls, FALSE) = count
          /\ EachBatchWithin(mine_calls, batch_size)
          /\ Len(mine_calls) = CeilDiv(count, batch_size)
          /\ BlocksMined(mine_calls) = count
               <=> \A i \in DOMAIN mine_calls : mine_calls[i].success

\* mine_blocks(4, 3) ended after two calls of which the second failed: four
\* blocks were reported, three were mined.
C29_Witness ==
    /\ mine_pc = "delegation_returned"
    /\ count = 4
    /\ batch_size = 3
    /\ mine_calls = << MineCall(3, TRUE), MineCall(1, FALSE) >>
    /\ BlocksMined(mine_calls) = 3

\* ------------------------- frontend/public/metadata: the two file generators

\* range(1, 21) in both main() functions
FirstTokenId == 1
TokenIdsEnd == 21

\* generate_metadata.py, line 9; a Python list, indexed from 0
SYMBOLS == << "Hexagon", "Diamond", "Star", "Classic N" >>

\* images/generate.py, line 60
symbols == << "N", "hexagon", "diamond", "star" >>

\* list[token_id % len(list)]
PickByTokenId(list, token_id) == list[(token_id % Len(list)) + 1]

\* generate_metadata.py, lines 19-29: the Symbol and Edition traits
get_traits(token_id) ==
    [Symbol |-> PickByTokenId(SYMBOLS, token_id), Edition |-> token_id]

\* images/generate.py, lines 57-100: the symbol chosen and the shape drawn
generate_center_symbol(seed, token_id) ==
    LET symbol_type == PickByTokenId(symbols, seed)
    IN [symbol_type |-> symbol_type,
        drawing |-> CASE symbol_type = "N"       -> "Geometric N"
                      [] symbol_type = "hexagon" -> "Hexagon"
                      [] symbol_type = "diamond" -> "Diamond"
                      [] OTHER                   -> "Star"]

\* images/generate.py, lines 102-147: seed = token_id
generate_svg(token_id) ==
    [token_id |-> token_id, center |-> generate_center_symbol(token_id, token_id)]

NftInit ==
    /\ json_files = <<>>
    /\ svg_files = <<>>
    /\ RegistrarIdle
    /\ GovIdle
    /\ DelegIdle
    /\ DetIdle
    /\ MineIdle

\* generate_metadata.py, lines 56-60: one iteration of main()
WriteMetadata ==
    /\ FirstTokenId + Len(json_files) < TokenIdsEnd
    /\ LET token_id == FirstTokenId + Len(json_files)
       IN json_files' = Append(json_files,
                               [token_id |-> token_id, traits |-> get_traits(token_id)])
    /\ UNCHANGED svg_files
    /\ UNCHANGED not_nft_vars

\* images/generate.py, lines 151-155: one iteration of main()
WriteImage ==
    /\ FirstTokenId + Len(svg_files) < TokenIdsEnd
    /\ LET token_id == FirstTokenId + Len(svg_files)
       IN svg_files' = Append(svg_files, generate_svg(token_id))
    /\ UNCHANGED json_files
    /\ UNCHANGED not_nft_vars

NftNext == WriteMetadata \/ WriteImage

NftSpec == NftInit /\ [][NftNext]_vars

\* The shape each trait value stands for.
ShapeNamedBy(trait) ==
    CASE trait = "Hexagon"   -> "hexagon"
      [] trait = "Diamond"   -> "diamond"
      [] trait = "Star"      -> "star"
      [] trait = "Classic N" -> "N"
      [] OTHER               -> None

\* C30: for every token id, the Symbol trait of the token's metadata names the
\* shape the image generator draws for that token: Hexagon with hexagon,
\* Diamond with diamond, Star with star, Classic N with N.
C30_SymbolTraitNamesDrawnShape ==
    \A i \in DOMAIN json_files, j \in DOMAIN svg_files :
        json_files[i].token_id = svg_files[j].token_id =>
            ShapeNamedBy(json_files[i].traits.Symbol) = svg_files[j].center.symbol_type

\* What the two lists give: the metadata of a token names the shape that the
\* image of the next token id draws.
SymbolTraitNamesNextShape ==
    \A i \in DOMAIN json_files, j \in DOMAIN svg_files :
        json_files[i].token_id + 1 = svg_files[j].token_id =>
            ShapeNamedBy(json_files[i].traits.Symbol) = svg_files[j].center.symbol_type

====
